---- MODULE Spec2Model ----
(***************************************************************************)
(* Tiering / trend / priority pipeline of the teacher-first dashboard:     *)
(* the relational store (student_enrollments, assessments,                 *)
(* benchmark_thresholds, interventions) and the analytics views of         *)
(* migration V3 (v_teacher_roster, v_support_status, v_teacher_kpis,       *)
(* v_growth_last_two, v_priority_students) evaluated over it.              *)
(*                                                                         *)
(* Scores and thresholds (NUMERIC) are integers in tenths of a point.      *)
(* Dates and timestamps are integers (days / ticks).                       *)
(* Key columns (TEXT) are strings compared for equality only; texts that   *)
(* the SQL processes character by character (status, reasons) are         *)
(* sequences of one-character strings.                                     *)
(***************************************************************************)
EXTENDS Integers, Sequences, FiniteSets, TLC

VARIABLES
    student_enrollments,    \* table public.student_enrollments
    assessments,            \* table public.assessments
    benchmark_thresholds,   \* table public.benchmark_thresholds
    interventions,          \* table public.interventions
    today,                  \* CURRENT_DATE of the session
    migration,              \* the next step of migration V3, "done" once it has run
    tier_history,           \* table public.tier_history
    queried,                \* TRUE when the view variables hold a read of the tables as they are
    latest,                 \* CTE latest of v_teacher_roster, as last read
    v_teacher_roster,
    v_support_status,
    v_teacher_kpis,
    v_growth_last_two,
    v_priority_students,
    page,                   \* state of the Student Detail page of the web client
    overview                \* state of the Overview dashboard of the web client

tables == <<student_enrollments, assessments, benchmark_thresholds, interventions, today,
           migration, tier_history>>
views == <<latest, v_teacher_roster, v_support_status, v_teacher_kpis, v_growth_last_two,
          v_priority_students>>
client == <<page, overview>>
vars == <<tables, queried, views, client>>

-----------------------------------------------------------------------------
(* SQL NULL and three-valued comparisons (a comparison with NULL is not TRUE) *)

\* NULL of a TEXT key column
NULL == "NULL"
\* NULL of a NUMERIC / DATE / INT column: outside every value the model uses
NULLN == 0 - 999999
\* NULL of a text held as a character sequence
NULLS == <<"NULL">>

\* the Student Detail page while it is not mounted
NoPage == [pathname |-> <<>>]

\* the Overview dashboard while it is not mounted
NoOverview == [mounted |-> FALSE]

SqlEq(a, b) == a # NULL /\ b # NULL /\ a = b
NumLt(a, b) == a # NULLN /\ b # NULLN /\ a < b
NumGt(a, b) == a # NULLN /\ b # NULLN /\ a > b
NumGe(a, b) == a # NULLN /\ b # NULLN /\ a >= b
NumLe(a, b) == a # NULLN /\ b # NULLN /\ a <= b
NumSub(a, b) == IF a = NULLN \/ b = NULLN THEN NULLN ELSE a - b

\* MAX(x) over the rows of a group; NULL over no rows
MaxOf(S) == IF S = {} THEN NULLN ELSE CHOOSE x \in S : \A y \in S : y <= x

\* tenths of a point per point of the NUMERIC score scale
Scale == 10

-----------------------------------------------------------------------------
(* Character-level text functions *)

UpperChars == <<"A", "B", "C", "D", "E", "F", "G", "H", "I", "J", "K", "L", "M", "N", "O", "P", "Q", "R", "S", "T", "U", "V", "W", "X", "Y", "Z">>
LowerChars == <<"a", "b", "c", "d", "e", "f", "g", "h", "i", "j", "k", "l", "m", "n", "o", "p", "q", "r", "s", "t", "u", "v", "w", "x", "y", "z">>

LowerChar(c) ==
    IF \E i \in 1..Len(UpperChars) : UpperChars[i] = c
    THEN LowerChars[CHOOSE i \in 1..Len(UpperChars) : UpperChars[i] = c]
    ELSE c

\* LOWER(text)
Lower(s) == IF s = NULLS THEN NULLS ELSE [i \in 1..Len(s) |-> LowerChar(s[i])]

RECURSIVE TrimLeft(_, _)
TrimLeft(s, chars) ==
    IF Len(s) > 0 /\ s[1] \in chars THEN TrimLeft(Tail(s), chars) ELSE s

RECURSIVE TrimRight(_, _)
TrimRight(s, chars) ==
    IF Len(s) > 0 /\ s[Len(s)] \in chars THEN TrimRight(SubSeq(s, 1, Len(s) - 1), chars) ELSE s

\* TRIM(BOTH chars FROM text): strips every leading and trailing character that is in chars
TrimBoth(s, chars) == IF s = NULLS THEN NULLS ELSE TrimRight(TrimLeft(s, chars), chars)

\* TRIM(text): strips spaces
Trim(s) == TrimBoth(s, {" "})

RECURSIVE ConcatWsFrom(_, _, _)
ConcatWsFrom(sep, args, started) ==
    IF args = <<>> THEN <<>>
    ELSE IF Head(args) = NULLS THEN ConcatWsFrom(sep, Tail(args), started)
    ELSE (IF started THEN sep ELSE <<>>) \o Head(args) \o ConcatWsFrom(sep, Tail(args), TRUE)

RECURSIVE ConcatWsKeepNullFrom(_, _, _)
ConcatWsKeepNullFrom(sep, args, started) ==
    IF args = <<>> THEN <<>>
    ELSE (IF started THEN sep ELSE <<>>)
         \o (IF Head(args) = NULLS THEN <<>> ELSE Head(args))
         \o ConcatWsKeepNullFrom(sep, Tail(args), TRUE)

\* mutant of ConcatWs: a NULL argument joined as an empty text instead of skipped
ConcatWsKeepNull(sep, args) == ConcatWsKeepNullFrom(sep, args, FALSE)

\* CONCAT_WS(sep, args...): the non-NULL arguments joined by sep; '' when there is none
ConcatWs(sep, args) == ConcatWsFrom(sep, args, FALSE)

-----------------------------------------------------------------------------
(* 2.1 v_teacher_roster *)

\* ORDER BY effective_date DESC NULLS LAST, created_at DESC: a sorts strictly before b
SortsBefore(a, b) ==
    IF a.effective_date # NULLN /\ b.effective_date # NULLN /\ a.effective_date # b.effective_date
    THEN a.effective_date > b.effective_date
    ELSE IF (a.effective_date = NULLN) # (b.effective_date = NULLN)
    THEN a.effective_date # NULLN
    ELSE a.created_at > b.created_at

\* FROM public.assessments a WHERE a.enrollment_id IS NOT NULL
LatestSource(A) == {a \in A : a.enrollment_id # NULL}

\* the DISTINCT ON (a.enrollment_id, a.subject_area) groups
LatestGroups(A) == {<<a.enrollment_id, a.subject_area>> : a \in LatestSource(A)}

\* the rows of a group that no other row of the group sorts before
LatestTop(A, g) ==
    LET G == {a \in LatestSource(A) : <<a.enrollment_id, a.subject_area>> = g}
    IN  {a \in G : \A b \in G : ~SortsBefore(b, a)}

\* DISTINCT ON keeps the first row of each group; among rows that tie on the
\* whole sort key the row kept is unspecified
LatestChoices(A) ==
    {f \in [LatestGroups(A) -> A] : \A g \in LatestGroups(A) : f[g] \in LatestTop(A, g)}

LatestRow(a) ==
    [enrollment_id |-> a.enrollment_id,
     subject_area  |-> a.subject_area,
     latest_score  |-> a.score_normalized,
     latest_date   |-> a.effective_date,
     latest_period |-> a.assessment_period,
     school_year   |-> a.school_year,
     latest_type   |-> a.assessment_type]

LatestCte(A, f) == {LatestRow(f[g]) : g \in LatestGroups(A)}

NoLatest ==
    [enrollment_id |-> NULL, subject_area |-> NULL, latest_score |-> NULLN,
     latest_date |-> NULLN, latest_period |-> NULL, school_year |-> NULL,
     latest_type |-> NULL]

\* status IS NULL OR LOWER(TRIM(status)) IN ('active', 'in progress', 'ongoing')
ActiveStatuses ==
    {<<"a", "c", "t", "i", "v", "e">>,
     <<"i", "n", " ", "p", "r", "o", "g", "r", "e", "s", "s">>,
     <<"o", "n", "g", "o", "i", "n", "g">>}

StatusIsActive(status) == status = NULLS \/ Lower(Trim(status)) \in ActiveStatuses

\* CTE active_intervention: the enrollment ids it has a row for
ActiveIntervention(I) ==
    {i.enrollment_id : i \in {j \in I : j.enrollment_id # NULL /\ StatusIsActive(j.status)}}

\* (CURRENT_DATE - l.latest_date)::INT
DaysSince(now, d) == NumSub(now, d)

RosterRow(e, l, I, now) ==
    [enrollment_id |-> e.enrollment_id,
     school_year   |-> e.school_year,
     grade_level   |-> e.grade_level,
     teacher_name  |-> e.teacher_name,
     subject_area  |-> l.subject_area,
     latest_score  |-> l.latest_score,
     latest_date   |-> l.latest_date,
     latest_period |-> l.latest_period,
     latest_type   |-> l.latest_type,
     days_since_assessment   |-> DaysSince(now, l.latest_date),
     has_active_intervention |-> e.enrollment_id \in ActiveIntervention(I)]

\* LEFT JOIN latest l ON l.enrollment_id = e.enrollment_id AND l.school_year = e.school_year
RosterLatestMatches(e, L) ==
    {l \in L : SqlEq(l.enrollment_id, e.enrollment_id) /\ SqlEq(l.school_year, e.school_year)}

TeacherRoster(E, L, I, now) ==
    UNION {IF RosterLatestMatches(e, L) = {}
           THEN {RosterRow(e, NoLatest, I, now)}
           ELSE {RosterRow(e, l, I, now) : l \in RosterLatestMatches(e, L)}
           : e \in E}

-----------------------------------------------------------------------------
(* 2.2 v_support_status *)

SupportStatusOf(score, support_threshold, benchmark_threshold) ==
    IF score = NULLN THEN "Unknown"
    ELSE IF support_threshold # NULLN /\ NumLt(score, support_threshold) THEN "Needs Support"
    ELSE IF benchmark_threshold # NULLN /\ NumLt(score, benchmark_threshold) THEN "Monitor"
    ELSE "On Track"

\* mutants of TierOf: a missing benchmark_threshold read as "below benchmark";
\* the benchmark branch tested before the support branch
TierOfNullBelow(score, support_threshold, benchmark_threshold) ==
    IF score = NULLN THEN "Unknown"
    ELSE IF support_threshold # NULLN /\ NumLt(score, support_threshold) THEN "Intensive"
    ELSE IF benchmark_threshold = NULLN \/ NumLt(score, benchmark_threshold) THEN "Strategic"
    ELSE "Core"

TierOfBenchmarkFirst(score, support_threshold, benchmark_threshold) ==
    IF score = NULLN THEN "Unknown"
    ELSE IF benchmark_threshold # NULLN /\ NumLt(score, benchmark_threshold) THEN "Strategic"
    ELSE IF support_threshold # NULLN /\ NumLt(score, support_threshold) THEN "Intensive"
    ELSE "Core"

TierOf(score, support_threshold, benchmark_threshold) ==
    IF score = NULLN THEN "Unknown"
    ELSE IF support_threshold # NULLN /\ NumLt(score, support_threshold) THEN "Intensive"
    ELSE IF benchmark_threshold # NULLN /\ NumLt(score, benchmark_threshold) THEN "Strategic"
    ELSE "Core"

\* mutant of ThresholdJoins: the period key left out of the ON clause
ThresholdJoinsNoPeriod(t, r) ==
    /\ SqlEq(t.subject_area, r.subject_area)
    /\ SqlEq(t.assessment_type, r.latest_type)
    /\ SqlEq(t.grade_level, r.grade_level)
    /\ SqlEq(t.school_year, r.school_year)

\* the ON clause of LEFT JOIN public.benchmark_thresholds t
ThresholdJoins(t, r) ==
    /\ SqlEq(t.subject_area, r.subject_area)
    /\ SqlEq(t.assessment_type, r.latest_type)
    /\ SqlEq(t.grade_level, r.grade_level)
    /\ SqlEq(t.assessment_period, r.latest_period)
    /\ SqlEq(t.school_year, r.school_year)

NoThreshold == [support_threshold |-> NULLN, benchmark_threshold |-> NULLN]

SupportRow(r, t) ==
    [enrollment_id |-> r.enrollment_id,
     school_year   |-> r.school_year,
     grade_level   |-> r.grade_level,
     teacher_name  |-> r.teacher_name,
     subject_area  |-> r.subject_area,
     latest_score  |-> r.latest_score,
     latest_date   |-> r.latest_date,
     latest_period |-> r.latest_period,
     days_since_assessment   |-> r.days_since_assessment,
     has_active_intervention |-> r.has_active_intervention,
     support_threshold   |-> t.support_threshold,
     benchmark_threshold |-> t.benchmark_threshold,
     support_status |-> SupportStatusOf(r.latest_score, t.support_threshold, t.benchmark_threshold),
     tier           |-> TierOf(r.latest_score, t.support_threshold, t.benchmark_threshold)]

\* mutant of SupportStatus: an inner join, which drops the rows without a threshold
SupportStatusInnerJoin(R, T) ==
    UNION {{SupportRow(r, t) : t \in {u \in T : ThresholdJoins(u, r)}} : r \in R}

SupportStatus(R, T) ==
    UNION {IF {t \in T : ThresholdJoins(t, r)} = {}
           THEN {SupportRow(r, NoThreshold)}
           ELSE {SupportRow(r, t) : t \in {u \in T : ThresholdJoins(u, r)}}
           : r \in R}

-----------------------------------------------------------------------------
(* 2.3 v_teacher_kpis *)

\* GROUP BY teacher_name, school_year, subject_area (NULL keys group together)
KpiGroup(r) == <<r.teacher_name, r.school_year, r.subject_area>>

\* ROUND(100.0 * n / NULLIF(total, 0), 1), in tenths of a percent, half rounded up
PctOf(n, total) == IF total = 0 THEN NULLN ELSE (2000 * n + total) \div (2 * total)

\* the k-th smallest days_since_assessment of the rows, counted with repetition
KthDays(rows, k) ==
    CHOOSE d \in {r.days_since_assessment : r \in rows} :
        /\ Cardinality({r \in rows : r.days_since_assessment < d}) < k
        /\ Cardinality({r \in rows : r.days_since_assessment <= d}) >= k

\* PERCENTILE_CONT(0.5) WITHIN GROUP (ORDER BY days_since_assessment), in half
\* days: the middle value, or the mean of the two middle values; NULL over no rows
MedianDays(rows) ==
    LET n == Cardinality(rows)
    IN  IF n = 0 THEN NULLN
        ELSE IF n % 2 = 1 THEN 2 * KthDays(rows, (n + 1) \div 2)
        ELSE KthDays(rows, n \div 2) + KthDays(rows, n \div 2 + 1)

KpiRow(g, rows) ==
    [teacher_name      |-> g[1],
     school_year       |-> g[2],
     subject_area      |-> g[3],
     total_students    |-> Cardinality(rows),
     assessed_students |-> Cardinality({r \in rows : r.latest_score # NULLN}),
     assessed_pct      |-> PctOf(Cardinality({r \in rows : r.latest_score # NULLN}),
                                 Cardinality(rows)),
     overdue_count     |-> Cardinality({r \in rows : NumGt(r.days_since_assessment, 90)}),
     overdue_pct       |-> PctOf(Cardinality({r \in rows : NumGt(r.days_since_assessment, 90)}),
                                 Cardinality(rows)),
     median_days_since |-> MedianDays({r \in rows : r.days_since_assessment # NULLN})]

TeacherKpis(R) ==
    {KpiRow(g, {r \in R : KpiGroup(r) = g}) : g \in {KpiGroup(r) : r \in R}}

-----------------------------------------------------------------------------
(* 2.4 v_growth_last_two *)

\* mutant of RankedSource: the score filter left out
RankedSourceUnfiltered(A) == {a \in A : a.enrollment_id # NULL}

\* WHERE a.enrollment_id IS NOT NULL AND a.score_normalized IS NOT NULL
RankedSource(A) == {a \in A : a.enrollment_id # NULL /\ a.score_normalized # NULLN}

\* PARTITION BY a.enrollment_id, a.subject_area, a.school_year
Partition(a) == <<a.enrollment_id, a.subject_area, a.school_year>>

PartitionRows(A, p) == {a \in RankedSource(A) : Partition(a) = p}

\* ROW_NUMBER() over the window: the possible numberings; rows that tie on the
\* whole sort key are numbered in an unspecified order
RankChoices(A) ==
    LET rows == RankedSource(A)
        part == [a \in rows |-> {b \in rows : Partition(b) = Partition(a)}]
    IN  {rn \in [rows -> 1..Cardinality(rows)] :
            \A a \in rows :
                /\ rn[a] <= Cardinality(part[a])
                /\ \A b \in part[a] :
                      /\ (b # a => rn[b] # rn[a])
                      /\ (SortsBefore(a, b) => rn[a] < rn[b])}

\* the scores of the rows of partition p that are numbered n
ScoresAt(A, rn, p, n) == {a.score_normalized : a \in {b \in PartitionRows(A, p) : rn[b] = n}}

\* CTE pairs: WHERE rn <= 2 GROUP BY 1, 2, 3
Pairs(A, rn) ==
    {[enrollment_id |-> p[1],
      subject_area  |-> p[2],
      school_year   |-> p[3],
      latest_score  |-> MaxOf(ScoresAt(A, rn, p, 1)),
      prior_score   |-> MaxOf(ScoresAt(A, rn, p, 2))]
     : p \in {Partition(a) : a \in {b \in RankedSource(A) : rn[b] <= 2}}}

\* the +2 / -2 points of the trend CASE, in tenths
TrendStep == 2 * Scale

\* mutants of TrendOf: strict comparisons; the difference taken the wrong way round
TrendOfStrict(latest_score, prior_score) ==
    IF prior_score = NULLN THEN "No Data"
    ELSE IF NumGt(NumSub(latest_score, prior_score), TrendStep) THEN "Improving"
    ELSE IF NumLt(NumSub(latest_score, prior_score), 0 - TrendStep) THEN "Declining"
    ELSE "Stable"

TrendOfReversed(latest_score, prior_score) ==
    IF prior_score = NULLN THEN "No Data"
    ELSE IF NumGe(NumSub(prior_score, latest_score), TrendStep) THEN "Improving"
    ELSE IF NumLe(NumSub(prior_score, latest_score), 0 - TrendStep) THEN "Declining"
    ELSE "Stable"

TrendOf(latest_score, prior_score) ==
    IF prior_score = NULLN THEN "No Data"
    ELSE IF NumGe(NumSub(latest_score, prior_score), TrendStep) THEN "Improving"
    ELSE IF NumLe(NumSub(latest_score, prior_score), 0 - TrendStep) THEN "Declining"
    ELSE "Stable"

GrowthRow(p) ==
    [enrollment_id |-> p.enrollment_id,
     subject_area  |-> p.subject_area,
     school_year   |-> p.school_year,
     latest_score  |-> p.latest_score,
     prior_score   |-> p.prior_score,
     growth        |-> NumSub(p.latest_score, p.prior_score),
     trend         |-> TrendOf(p.latest_score, p.prior_score)]

GrowthLastTwo(A, rn) == {GrowthRow(p) : p \in Pairs(A, rn)}

-----------------------------------------------------------------------------
(* 2.5 v_priority_students *)

\* mutant of TierPoints: the Intensive and Strategic contributions exchanged
TierPointsSwapped(tier) == IF tier = "Intensive" THEN 3 ELSE IF tier = "Strategic" THEN 5 ELSE 0

TierPoints(tier) == IF tier = "Intensive" THEN 5 ELSE IF tier = "Strategic" THEN 3 ELSE 0

TrendPoints(trend) ==
    IF SqlEq(trend, "Declining") THEN 3 ELSE IF SqlEq(trend, "Stable") THEN 1 ELSE 0

\* mutant of RecencyPoints: the two recency conditions added up independently
RecencyPointsBoth(days) == (IF NumGt(days, 90) THEN 2 ELSE 0) + (IF NumGt(days, 60) THEN 1 ELSE 0)

RecencyPoints(days) == IF NumGt(days, 90) THEN 2 ELSE IF NumGt(days, 60) THEN 1 ELSE 0

GapPoints(tier, has_active_intervention) ==
    IF has_active_intervention = FALSE /\ tier \in {"Intensive", "Strategic"} THEN 2 ELSE 0

PriorityScore(tier, trend, days, has_active_intervention) ==
    TierPoints(tier) + TrendPoints(trend) + RecencyPoints(days)
        + GapPoints(tier, has_active_intervention)

IntensiveTierText == <<"I", "n", "t", "e", "n", "s", "i", "v", "e", " ", "t", "i", "e", "r">>
StrategicTierText == <<"S", "t", "r", "a", "t", "e", "g", "i", "c", " ", "t", "i", "e", "r">>
DecliningText == <<"D", "e", "c", "l", "i", "n", "i", "n", "g", " ", "g", "r", "o", "w", "t", "h", " ", "t", "r", "e", "n", "d">>
NoInterventionText == <<"N", "o", " ", "a", "c", "t", "i", "v", "e", " ", "i", "n", "t", "e", "r", "v", "e", "n", "t", "i", "o", "n">>
OverdueText == <<"O", "v", "e", "r", "d", "u", "e", " ", "a", "s", "s", "e", "s", "s", "m", "e", "n", "t", " ", "(", ">", "9", "0", "d", ")">>

\* the four CASE arguments of CONCAT_WS; a CASE without ELSE is NULL when no WHEN matches
ReasonArgs(tier, trend, days, has_active_intervention) ==
    << IF tier = "Intensive" THEN IntensiveTierText
       ELSE IF tier = "Strategic" THEN StrategicTierText ELSE NULLS,
       IF SqlEq(trend, "Declining") THEN DecliningText ELSE NULLS,
       IF has_active_intervention = FALSE /\ tier \in {"Intensive", "Strategic"}
       THEN NoInterventionText ELSE NULLS,
       IF NumGt(days, 90) THEN OverdueText ELSE NULLS >>

\* TRIM(BOTH ' |' FROM CONCAT_WS(' | ', ...))
Reasons(tier, trend, days, has_active_intervention) ==
    TrimBoth(ConcatWs(<<" ", "|", " ">>, ReasonArgs(tier, trend, days, has_active_intervention)),
             {" ", "|"})

\* LEFT JOIN public.v_growth_last_two g ON ...
GrowthJoins(g, ss) ==
    /\ SqlEq(g.enrollment_id, ss.enrollment_id)
    /\ SqlEq(g.subject_area, ss.subject_area)
    /\ SqlEq(g.school_year, ss.school_year)

PriorityRow(ss, trend) ==
    [enrollment_id |-> ss.enrollment_id,
     teacher_name  |-> ss.teacher_name,
     school_year   |-> ss.school_year,
     grade_level   |-> ss.grade_level,
     subject_area  |-> ss.subject_area,
     latest_score  |-> ss.latest_score,
     support_status |-> ss.support_status,
     tier          |-> ss.tier,
     trend         |-> trend,
     days_since_assessment   |-> ss.days_since_assessment,
     has_active_intervention |-> ss.has_active_intervention,
     support_threshold   |-> ss.support_threshold,
     benchmark_threshold |-> ss.benchmark_threshold,
     priority_score |-> PriorityScore(ss.tier, trend, ss.days_since_assessment,
                                      ss.has_active_intervention),
     reasons        |-> Reasons(ss.tier, trend, ss.days_since_assessment,
                                ss.has_active_intervention)]
\* (support_threshold and benchmark_threshold are not selected by the view: they keep
\* apart the rows that come from different v_support_status rows, the view being a
\* multiset)

PriorityStudents(SS, G) ==
    UNION {IF {g \in G : GrowthJoins(g, ss)} = {}
           THEN {PriorityRow(ss, NULL)}
           ELSE {PriorityRow(ss, g.trend) : g \in {h \in G : GrowthJoins(h, ss)}}
           : ss \in SS}

-----------------------------------------------------------------------------
(* Reading the views: one evaluation of v_priority_students, of the views under
   it and of v_teacher_kpis over the committed tables *)

NoViews ==
    /\ latest' = {}
    /\ v_teacher_roster' = {}
    /\ v_support_status' = {}
    /\ v_teacher_kpis' = {}
    /\ v_growth_last_two' = {}
    /\ v_priority_students' = {}

Query ==
    /\ migration = "done"
    /\ \E f \in LatestChoices(assessments), rn \in RankChoices(assessments) :
          LET L  == LatestCte(assessments, f)
              R  == TeacherRoster(student_enrollments, L, interventions, today)
              SS == SupportStatus(R, benchmark_thresholds)
              G  == GrowthLastTwo(assessments, rn)
          IN  /\ latest' = L
              /\ v_teacher_roster' = R
              /\ v_support_status' = SS
              /\ v_teacher_kpis' = TeacherKpis(R)
              /\ v_growth_last_two' = G
              /\ v_priority_students' = PriorityStudents(SS, G)
    /\ queried' = TRUE
    /\ UNCHANGED client
    /\ UNCHANGED tables

-----------------------------------------------------------------------------
(* Writes *)

\* most rows the model lets each table hold
MaxAssessments == 3
MaxThresholds == 2
MaxInterventions == 1

Enrollment(id, year, grade) ==
    [enrollment_id |-> id, school_year |-> year, grade_level |-> grade, teacher_name |-> "Teacher1"]

Assessment(enrollment, subject, type, period, year, score, date, created) ==
    [enrollment_id |-> enrollment, subject_area |-> subject, assessment_type |-> type,
     assessment_period |-> period, school_year |-> year, score_normalized |-> score,
     effective_date |-> date, created_at |-> created]

\* uq_assessment_unique_window: a row with the same five keys exists already
SameWindow(a, b) ==
    /\ a.enrollment_id # NULL
    /\ SqlEq(a.enrollment_id, b.enrollment_id)
    /\ SqlEq(a.subject_area, b.subject_area)
    /\ SqlEq(a.assessment_type, b.assessment_type)
    /\ SqlEq(a.assessment_period, b.assessment_period)
    /\ SqlEq(a.school_year, b.school_year)

\* the (subject, period, year) windows written for enrollment E1: three of one
\* growth partition and one of another school year
Windows ==
    {<<"Math", "Fall", "Y1">>, <<"Math", "Winter", "Y1">>, <<"Math", "Spring", "Y1">>,
     <<"Math", "Fall", "Y2">>}

\* the (effective_date, created_at) pairs written: two dates, a missing date, and
\* two insertion times on one date
Stamps == {<<2, 1>>, <<1, 2>>, <<1, 1>>, <<NULLN, 1>>}

InsertAssessment ==
    /\ Cardinality(assessments) < MaxAssessments
    /\ \E w \in Windows, score \in {NULLN, 550, 580}, st \in Stamps :
          LET a == Assessment("E1", w[1], "T1", w[2], w[3], score, st[1], st[2])
          IN  /\ \A b \in assessments : ~SameWindow(a, b)
              /\ assessments' = assessments \cup {a}
    /\ queried' = FALSE
    /\ NoViews
    /\ UNCHANGED client
    /\ UNCHANGED <<student_enrollments, benchmark_thresholds, interventions, today, migration,
                   tier_history>>

Threshold(subject, type, grade, period, year, support, benchmark) ==
    [subject_area |-> subject, assessment_type |-> type, grade_level |-> grade,
     assessment_period |-> period, school_year |-> year,
     support_threshold |-> support, benchmark_threshold |-> benchmark]

Intervention(enrollment, subject, status) ==
    [enrollment_id |-> enrollment, subject_area |-> subject, status |-> status]

NoRead ==
    /\ queried = FALSE
    /\ latest = {}
    /\ v_teacher_roster = {}
    /\ v_support_status = {}
    /\ v_teacher_kpis = {}
    /\ v_growth_last_two = {}
    /\ v_priority_students = {}

-----------------------------------------------------------------------------
(* Spec: one enrollment, assessments entered one at a time, views read at any time *)

Init ==
    /\ student_enrollments = {Enrollment("E1", "Y1", "G1")}
    /\ assessments = {}
    /\ benchmark_thresholds = {Threshold("Math", "T1", "G1", "Fall", "Y1", 600, 750)}
    /\ interventions = {}
    /\ today = 3
    /\ migration = "done"
    /\ tier_history = {}
    /\ page = NoPage
    /\ overview = NoOverview
    /\ NoRead

Next == InsertAssessment \/ Query

Spec == Init /\ [][Next]_vars

-----------------------------------------------------------------------------
(* SpecTier: two enrollments of one grade with one Fall Math assessment each
   (E2 scoring no lower than E1, a missing score counting lowest), threshold
   rows entered one at a time *)

\* the keys of the roster rows, and the keys that differ from them in one column
ThresholdKeys ==
    {<<"Math", "T1", "G1", "Fall", "Y1">>,
     <<"Reading", "T1", "G1", "Fall", "Y1">>,
     <<"Math", "T2", "G1", "Fall", "Y1">>,
     <<"Math", "T1", "G2", "Fall", "Y1">>,
     <<"Math", "T1", "G1", "Winter", "Y1">>,
     <<"Math", "T1", "G1", "Fall", "Y2">>}

\* the (support_threshold, benchmark_threshold) pairs written: either one missing,
\* both missing, in order, and support above benchmark
Cutoffs == {<<NULLN, NULLN>>, <<600, NULLN>>, <<NULLN, 700>>, <<600, 700>>, <<750, 700>>}

InsertThreshold ==
    /\ Cardinality(benchmark_thresholds) < MaxThresholds
    /\ \E k \in ThresholdKeys, c \in Cutoffs :
          benchmark_thresholds' = benchmark_thresholds
              \cup {Threshold(k[1], k[2], k[3], k[4], k[5], c[1], c[2])}
    /\ queried' = FALSE
    /\ NoViews
    /\ UNCHANGED client
    /\ UNCHANGED <<student_enrollments, assessments, interventions, today, migration,
                   tier_history>>

TierScores == {NULLN, 550, 600, 650, 700, 750}

InitTier ==
    /\ student_enrollments = {Enrollment("E1", "Y1", "G1"), Enrollment("E2", "Y1", "G1")}
    /\ \E s1 \in TierScores : \E s2 \in {s \in TierScores : s >= s1} :
          assessments = {Assessment("E1", "Math", "T1", "Fall", "Y1", s1, 1, 1),
                         Assessment("E2", "Math", "T1", "Fall", "Y1", s2, 1, 1)}
    /\ benchmark_thresholds = {}
    /\ interventions = {}
    /\ today = 3
    /\ migration = "done"
    /\ tier_history = {}
    /\ page = NoPage
    /\ overview = NoOverview
    /\ NoRead

NextTier == InsertThreshold \/ Query

SpecTier == InitTier /\ [][NextTier]_vars

-----------------------------------------------------------------------------
(* SpecTrend: one enrollment with a Fall and a later Winter Math assessment of
   every pair of scores around 70 points, and a still later Reading assessment *)

\* half width, in tenths, of the score range around 70 points
TrendSpan == 30

TrendScores == {NULLN} \cup {70 * Scale + d : d \in (0 - TrendSpan)..TrendSpan}

InitTrend ==
    /\ student_enrollments = {Enrollment("E1", "Y1", "G1")}
    /\ \E prior \in TrendScores, last \in TrendScores :
          assessments = {Assessment("E1", "Math", "T1", "Fall", "Y1", prior, 1, 1),
                         Assessment("E1", "Math", "T1", "Winter", "Y1", last, 2, 2),
                         Assessment("E1", "Reading", "T1", "Winter", "Y1", 500, 3, 3)}
    /\ benchmark_thresholds = {}
    /\ interventions = {}
    /\ today = 3
    /\ migration = "done"
    /\ tier_history = {}
    /\ page = NoPage
    /\ overview = NoOverview
    /\ NoRead

NextTrend == Query

SpecTrend == InitTrend /\ [][NextTrend]_vars

-----------------------------------------------------------------------------
(* SpecPrio: one enrollment with thresholds 60 / 75, a Fall and a Winter Math
   assessment, read 60 to 95 days after the Winter one; interventions entered
   one at a time *)

StatusActiveSpace == <<"A", "c", "t", "i", "v", "e", " ">>
StatusInProgress == <<"i", "n", " ", "p", "r", "o", "g", "r", "e", "s", "s">>
StatusOngoing == <<"O", "N", "G", "O", "I", "N", "G">>
StatusCompleted == <<"C", "o", "m", "p", "l", "e", "t", "e", "d">>
StatusActiveTier2 == <<"A", "c", "t", "i", "v", "e", " ", "-", " ", "T", "i", "e", "r", " ", "2">>

Statuses ==
    {NULLS, StatusActiveSpace, StatusInProgress, StatusOngoing, StatusCompleted, StatusActiveTier2}

InsertIntervention ==
    /\ Cardinality(interventions) < MaxInterventions
    /\ \E enrollment \in {"E1", NULL}, subject \in {"Math", "Reading"}, status \in Statuses :
          interventions' = interventions \cup {Intervention(enrollment, subject, status)}
    /\ queried' = FALSE
    /\ NoViews
    /\ UNCHANGED client
    /\ UNCHANGED <<student_enrollments, assessments, benchmark_thresholds, today, migration,
                   tier_history>>

PrioScores == {NULLN, 550, 560, 580, 700, 800}

InitPrio ==
    /\ student_enrollments = {Enrollment("E1", "Y1", "G1")}
    /\ \E prior \in PrioScores, last \in PrioScores, dates \in {<<100, 200>>, <<NULLN, NULLN>>} :
          assessments = {Assessment("E1", "Math", "T1", "Fall", "Y1", prior, dates[1], 1),
                         Assessment("E1", "Math", "T1", "Winter", "Y1", last, dates[2], 2)}
    /\ benchmark_thresholds = {Threshold("Math", "T1", "G1", "Fall", "Y1", 600, 750),
                               Threshold("Math", "T1", "G1", "Winter", "Y1", 600, 750)}
    /\ interventions = {}
    /\ today \in {260, 261, 290, 291, 295}
    /\ migration = "done"
    /\ tier_history = {}
    /\ page = NoPage
    /\ overview = NoOverview
    /\ NoRead

NextPrio == InsertIntervention \/ Query

SpecPrio == InitPrio /\ [][NextPrio]_vars

-----------------------------------------------------------------------------
(* SpecKpi: a cohort of three enrollments of one school year, two of one teacher
   and the third of that teacher or another; each enrollment has no assessment
   or one Fall assessment, in Math or Reading, scored or not, dated or not; read
   50 to 195 days after the dates *)

Cohort == {"E1", "E2", "E3"}

\* nothing entered, or the (subject, score, effective_date) of the one assessment
Entered ==
    {<<>>} \cup ({"Math", "Reading"} \X {NULLN, 550} \X {NULLN, 100, 200})

InitKpi ==
    /\ \E teacher \in {"Teacher1", "Teacher2"} :
          student_enrollments =
              {Enrollment("E1", "Y1", "G1"), Enrollment("E2", "Y1", "G1"),
               [Enrollment("E3", "Y1", "G1") EXCEPT !.teacher_name = teacher]}
    /\ \E entered \in [Cohort -> Entered] :
          assessments =
              {Assessment(e, entered[e][1], "T1", "Fall", "Y1", entered[e][2], entered[e][3], 1)
               : e \in {c \in Cohort : entered[c] # <<>>}}
    /\ benchmark_thresholds = {}
    /\ interventions = {}
    /\ today \in {250, 295}
    /\ migration = "done"
    /\ tier_history = {}
    /\ page = NoPage
    /\ overview = NoOverview
    /\ NoRead

NextKpi == Query

SpecKpi == InitKpi /\ [][NextKpi]_vars

-----------------------------------------------------------------------------
(* Migration V3, phase 1: the effective_date backfill, the deduplication of
   assessments and the unique index, over rows that carry the columns
   assessment_id and assessment_date next to those the views read *)

\* ticks of created_at per day
TicksPerDay == 2

\* created_at::date
DateOf(ts) == IF ts = NULLN THEN NULLN ELSE ts \div TicksPerDay

\* COALESCE(a, b)
Coalesce(a, b) == IF a # NULLN THEN a ELSE b

\* a row of public.assessments with its key and raw date
Stored(id, assessment_date, a) ==
    [assessment_id |-> id, assessment_date |-> assessment_date,
     enrollment_id |-> a.enrollment_id, subject_area |-> a.subject_area,
     assessment_type |-> a.assessment_type, assessment_period |-> a.assessment_period,
     school_year |-> a.school_year, score_normalized |-> a.score_normalized,
     effective_date |-> a.effective_date, created_at |-> a.created_at]

\* UPDATE public.assessments SET effective_date = COALESCE(...) WHERE effective_date IS NULL
Backfill ==
    /\ migration = "backfill"
    /\ assessments' =
          {IF a.effective_date = NULLN
           THEN [a EXCEPT !.effective_date = Coalesce(a.assessment_date, DateOf(a.created_at))]
           ELSE a
           : a \in assessments}
    /\ migration' = "dedupe"
    /\ UNCHANGED client
    /\ UNCHANGED <<student_enrollments, benchmark_thresholds, interventions, today, tier_history,
                   queried, views>>

\* the WHERE clause of the DELETE: a2 makes a a duplicate to delete
DedupeDeletes(a, a2) ==
    /\ a.enrollment_id # NULL
    /\ SqlEq(a.enrollment_id, a2.enrollment_id)
    /\ a.subject_area = a2.subject_area
    /\ SqlEq(a.assessment_type, a2.assessment_type)
    /\ SqlEq(a.assessment_period, a2.assessment_period)
    /\ SqlEq(a.school_year, a2.school_year)
    /\ a.assessment_id < a2.assessment_id

\* DELETE FROM public.assessments a USING public.assessments a2 WHERE ...
Dedupe ==
    /\ migration = "dedupe"
    /\ assessments' = {a \in assessments : \A a2 \in assessments : ~DedupeDeletes(a, a2)}
    /\ migration' = "index"
    /\ UNCHANGED client
    /\ UNCHANGED <<student_enrollments, benchmark_thresholds, interventions, today, tier_history,
                   queried, views>>

\* CREATE UNIQUE INDEX uq_assessment_unique_window: fails on rows it forbids
CreateIndex ==
    /\ migration = "index"
    /\ \A a \in assessments, b \in assessments : a # b => ~SameWindow(a, b)
    /\ migration' = "done"
    /\ UNCHANGED client
    /\ UNCHANGED <<student_enrollments, assessments, benchmark_thresholds, interventions, today,
                   tier_history, queried, views>>

\* most rows of assessments before the migration, most rows entered after it
MaxStored == 2
MaxInserted == 1

\* assessment_id SERIAL: the next value of the sequence
NextId(A) == 1 + MaxOf({0} \cup {a.assessment_id : a \in A})

\* an assessment of enrollment E1 entered after the migration: with an
\* effective_date, or with the assessment_date of the request body only
InsertStored ==
    /\ migration = "done"
    /\ Cardinality({a \in assessments : a.assessment_id > MaxStored}) < MaxInserted
    /\ \E subject \in {"Math", NULL}, period \in {"Fall", "Winter"},
          dates \in {<<NULLN, 5>>, <<4, NULLN>>} :
          LET id == NextId(assessments)
              a == Stored(id, dates[2],
                          Assessment("E1", subject, "T1", period, "Y1", 500 + 10 * id,
                                     dates[1], 6 * TicksPerDay))
          IN  /\ \A b \in assessments : ~SameWindow(a, b)
              /\ assessments' = assessments \cup {a}
    /\ queried' = FALSE
    /\ NoViews
    /\ UNCHANGED client
    /\ UNCHANGED <<student_enrollments, benchmark_thresholds, interventions, today, migration,
                   tier_history>>

-----------------------------------------------------------------------------
(* SpecMigrate: Fall assessments of one enrollment (or of none), of Math or of no
   subject, with or without an assessment_date, stored before the migration;
   the three steps of the migration; assessments entered after it; views read
   once it has run *)

StoredOptions == {"E1", NULL} \X {"Math", NULL} \X {NULLN, 3}

InitMigrate ==
    /\ student_enrollments = {Enrollment("E1", "Y1", "G1")}
    /\ \E pick \in [1..MaxStored -> StoredOptions] :
          assessments =
              {Stored(i, pick[i][3],
                      Assessment(pick[i][1], pick[i][2], "T1", "Fall", "Y1", 500 + 10 * i,
                                 NULLN, 3 + i))
               : i \in 1..MaxStored}
    /\ benchmark_thresholds = {}
    /\ interventions = {}
    /\ today = 7
    /\ migration = "backfill"
    /\ tier_history = {}
    /\ page = NoPage
    /\ overview = NoOverview
    /\ NoRead

NextMigrate == Backfill \/ Dedupe \/ CreateIndex \/ InsertStored \/ Query

SpecMigrate == InitMigrate /\ [][NextMigrate]_vars

-----------------------------------------------------------------------------
(* 2.6 tier_history and the snapshot job that fills it. The table is the
   migration's; the job is specified only (an upsert of the current tier keyed
   by enrollment, subject, school year and period) and is modelled as one
   INSERT ... ON CONFLICT (the unique columns) DO UPDATE statement per row *)

\* UNIQUE(enrollment_id, subject_area, school_year, assessment_period): rows h and
\* k conflict; assessment_period is nullable and a NULL equals nothing
HistoryConflict(h, k) ==
    /\ SqlEq(h.enrollment_id, k.enrollment_id)
    /\ SqlEq(h.subject_area, k.subject_area)
    /\ SqlEq(h.school_year, k.school_year)
    /\ SqlEq(h.assessment_period, k.assessment_period)

HistoryRow(id, ss, period, now) ==
    [history_id |-> id,
     enrollment_id |-> ss.enrollment_id,
     subject_area |-> ss.subject_area,
     assessment_period |-> period,
     school_year |-> ss.school_year,
     tier |-> ss.tier,
     support_status |-> ss.support_status,
     latest_score |-> ss.latest_score,
     computed_at |-> now]

\* most rows the model lets tier_history hold
MaxHistory == 3

\* one statement of a snapshot run: the current tier of a support status row
\* upserted under its period, or under no period
SnapshotUpsert ==
    /\ migration = "done"
    /\ queried
    /\ \E ss \in v_support_status, period \in {NULL, "Fall"} :
          LET row == HistoryRow(Cardinality(tier_history) + 1, ss, period, today)
              hit == {h \in tier_history : HistoryConflict(h, row)}
          IN  /\ ss.subject_area # NULL
              /\ period \in {NULL, ss.latest_period}
              /\ IF hit = {}
                 THEN /\ Cardinality(tier_history) < MaxHistory
                      /\ tier_history' = tier_history \cup {row}
                 ELSE tier_history' =
                          (tier_history \ hit)
                          \cup {[h EXCEPT !.tier = row.tier,
                                          !.support_status = row.support_status,
                                          !.latest_score = row.latest_score,
                                          !.computed_at = row.computed_at] : h \in hit}
    /\ UNCHANGED client
    /\ UNCHANGED <<student_enrollments, assessments, benchmark_thresholds, interventions, today,
                   migration, queried, views>>

-----------------------------------------------------------------------------
(* SpecHistory: two enrollments with one Fall Math assessment each and the Fall
   thresholds 60 / 75; views read and snapshot statements run in any order *)

InitHistory ==
    /\ student_enrollments = {Enrollment("E1", "Y1", "G1"), Enrollment("E2", "Y1", "G1")}
    /\ \E s1 \in {550, 650}, s2 \in {550, 650} :
          assessments = {Assessment("E1", "Math", "T1", "Fall", "Y1", s1, 1, 1),
                         Assessment("E2", "Math", "T1", "Fall", "Y1", s2, 1, 1)}
    /\ benchmark_thresholds = {Threshold("Math", "T1", "G1", "Fall", "Y1", 600, 750)}
    /\ interventions = {}
    /\ today = 3
    /\ migration = "done"
    /\ tier_history = {}
    /\ page = NoPage
    /\ overview = NoOverview
    /\ NoRead

NextHistory == Query \/ SnapshotUpsert

SpecHistory == InitHistory /\ [][NextHistory]_vars

-----------------------------------------------------------------------------
(* Properties of the tiering (checked under SpecTier) *)

\* the rows of v_support_status that come from roster row r
SupportRowsOf(r) ==
    {x \in v_support_status :
        x.enrollment_id = r.enrollment_id /\ x.subject_area = r.subject_area}

\* threshold row t carries exactly the five keys of roster row r
KeysMatch(t, r) ==
    /\ r.subject_area # NULL /\ t.subject_area = r.subject_area
    /\ r.latest_type # NULL /\ t.assessment_type = r.latest_type
    /\ t.grade_level = r.grade_level
    /\ r.latest_period # NULL /\ t.assessment_period = r.latest_period
    /\ t.school_year = r.school_year

\* the number of keys in which threshold row t differs from roster row r
KeysOff(t, r) ==
    Cardinality({i \in 1..5 :
        <<t.subject_area, t.assessment_type, t.grade_level, t.assessment_period, t.school_year>>[i]
        # <<r.subject_area, r.latest_type, r.grade_level, r.latest_period, r.school_year>>[i]})

\* the rule of the tiering, first match wins: <<support_status, tier>>
RuleOf(score, support, benchmark) ==
    LET belowSupport == support # NULLN /\ score < support
        belowBenchmark == benchmark # NULLN /\ score < benchmark
    IN  IF score = NULLN THEN <<"Unknown", "Unknown">>
        ELSE IF belowSupport THEN <<"Needs Support", "Intensive">>
        ELSE IF belowBenchmark THEN <<"Monitor", "Strategic">>
        ELSE <<"On Track", "Core">>

\* C1: every row of v_support_status carries the first matching branch of the
\* rule: Unknown/Unknown on a missing score; else Needs Support/Intensive when
\* support_threshold is present and the score is below it; else Monitor/Strategic
\* when benchmark_threshold is present and the score is below it; else
\* On Track/Core. A missing threshold never fires its branch, and support_status
\* and tier are the pair of one branch.
C1_TieringRule ==
    queried =>
        \A x \in v_support_status :
            <<x.support_status, x.tier>> =
                RuleOf(x.latest_score, x.support_threshold, x.benchmark_threshold)

\* C1 witness: support_threshold present, benchmark_threshold missing, score at or
\* above support_threshold, and the row is Core
C1_Witness ==
    /\ queried
    /\ \E x \in v_support_status :
          /\ x.support_threshold # NULLN
          /\ x.benchmark_threshold = NULLN
          /\ x.latest_score # NULLN
          /\ x.latest_score >= x.support_threshold
          /\ x.tier = "Core"

\* Core >= Strategic >= Intensive
TierRank(tier) == IF tier = "Core" THEN 3 ELSE IF tier = "Strategic" THEN 2 ELSE 1

\* C8: tiering is monotonic: of two rows tiered against the same pair of thresholds
\* (each possibly missing, in any order), the one with the lower score never has
\* the better tier.
C8_TierMonotonic ==
    queried =>
        \A x \in v_support_status, y \in v_support_status :
            (/\ x.support_threshold = y.support_threshold
             /\ x.benchmark_threshold = y.benchmark_threshold
             /\ x.latest_score # NULLN
             /\ y.latest_score # NULLN
             /\ x.latest_score <= y.latest_score)
            => TierRank(x.tier) <= TierRank(y.tier)

\* C8 witness: two scored rows under one pair of thresholds with support above
\* benchmark, the lower score Intensive and the higher Core
C8_Witness ==
    /\ queried
    /\ \E x \in v_support_status, y \in v_support_status :
          /\ x.support_threshold = y.support_threshold
          /\ x.benchmark_threshold = y.benchmark_threshold
          /\ x.benchmark_threshold # NULLN
          /\ x.support_threshold > x.benchmark_threshold
          /\ x.latest_score # NULLN
          /\ x.latest_score < y.latest_score
          /\ x.tier = "Intensive"
          /\ y.tier = "Core"

\* C9 as claimed: a roster row that no benchmark_thresholds row matches still has
\* a row in v_support_status, and its tier is Unknown.
C9_AsClaimed ==
    queried =>
        \A r \in v_teacher_roster :
            (\A t \in benchmark_thresholds : ~KeysMatch(t, r))
            => /\ SupportRowsOf(r) # {}
               /\ \A x \in SupportRowsOf(r) : x.tier = "Unknown"

\* C9 amended: a roster row that no benchmark_thresholds row matches has exactly
\* one row in v_support_status, with both thresholds missing; it is
\* Unknown/Unknown when the row has no score and On Track/Core when it has one.
C9_MissingThresholds ==
    queried =>
        \A r \in v_teacher_roster :
            (\A t \in benchmark_thresholds : ~KeysMatch(t, r))
            => /\ Cardinality(SupportRowsOf(r)) = 1
               /\ \A x \in SupportRowsOf(r) :
                     /\ x.support_threshold = NULLN
                     /\ x.benchmark_threshold = NULLN
                     /\ x.latest_score = r.latest_score
                     /\ <<x.support_status, x.tier>> =
                            IF r.latest_score = NULLN THEN <<"Unknown", "Unknown">>
                            ELSE <<"On Track", "Core">>

\* C9 witness: thresholds exist, none matches a scored roster row, and the row is Core
C9_Witness ==
    /\ queried
    /\ benchmark_thresholds # {}
    /\ \E r \in v_teacher_roster :
          /\ r.latest_score # NULLN
          /\ \A t \in benchmark_thresholds : ~KeysMatch(t, r)
          /\ \E x \in SupportRowsOf(r) : x.tier = "Core"

\* C10: the thresholds on the rows of v_support_status that come from one roster
\* row are those of the benchmark_thresholds rows equal to it in all five keys,
\* one row for each, with the support_status and tier the rule gives for them; a
\* threshold row that differs in a key adds no row and changes no value, and with
\* no exact match there is one row with both thresholds missing.
C10_ExactThresholdJoin ==
    queried =>
        \A r \in v_teacher_roster :
            LET M == {t \in benchmark_thresholds : KeysMatch(t, r)}
                Out(support, benchmark) ==
                    <<support, benchmark>> \o RuleOf(r.latest_score, support, benchmark)
                got == {<<x.support_threshold, x.benchmark_threshold, x.support_status, x.tier>>
                        : x \in SupportRowsOf(r)}
            IN  /\ got = IF M = {} THEN {Out(NULLN, NULLN)}
                         ELSE {Out(t.support_threshold, t.benchmark_threshold) : t \in M}
                /\ Cardinality(SupportRowsOf(r)) = Cardinality(got)

\* C10 witness: a scored roster row with one exactly matching threshold row and
\* one threshold row that differs from it in one key only
C10_Witness ==
    /\ queried
    /\ \E r \in v_teacher_roster :
          /\ r.latest_score # NULLN
          /\ \E t \in benchmark_thresholds, u \in benchmark_thresholds :
                /\ KeysMatch(t, r)
                /\ KeysOff(u, r) = 1
                /\ u.support_threshold # t.support_threshold
          /\ Cardinality(SupportRowsOf(r)) = 1

-----------------------------------------------------------------------------
(* Properties of the selection of assessments (checked under Spec) *)

\* a is newer than b under the key (effective_date, created_at), a missing date
\* counting as the oldest
Newer(a, b) ==
    \/ a.effective_date > b.effective_date
    \/ a.effective_date = b.effective_date /\ a.created_at > b.created_at

\* the newest rows of a set of assessments
Newest(S) == {a \in S : \A b \in S : ~Newer(b, a)}

\* the assessments of one enrollment and subject that carry a score
ScoredOf(enrollment, subject) ==
    {a \in assessments :
        /\ a.enrollment_id = enrollment
        /\ a.subject_area = subject
        /\ a.score_normalized # NULLN}

\* C2 as claimed: for every enrollment and subject with at least one scored
\* assessment, the latest CTE holds exactly one row, and it is a newest row among
\* the scored ones; a newer row without a score never displaces it.
C2_AsClaimed ==
    queried =>
        \A a \in assessments :
            LET S == ScoredOf(a.enrollment_id, a.subject_area)
                L == {l \in latest :
                        l.enrollment_id = a.enrollment_id /\ l.subject_area = a.subject_area}
            IN  (a.enrollment_id # NULL /\ S # {})
                => /\ Cardinality(L) = 1
                   /\ \A l \in L : \E m \in Newest(S) : l = LatestRow(m)

\* the scored assessments of one growth partition
ScoredIn(p) ==
    {a \in assessments :
        /\ a.enrollment_id # NULL
        /\ <<a.enrollment_id, a.subject_area, a.school_year>> = p
        /\ a.score_normalized # NULLN}

GrowthRowsOf(p) ==
    {g \in v_growth_last_two : <<g.enrollment_id, g.subject_area, g.school_year>> = p}

\* C7: for every (enrollment, subject, school year) there is a growth record
\* exactly when the partition has a scored assessment; its latest_score is the
\* score of a newest scored row, its prior_score the score of a newest of the
\* remaining scored rows, and missing exactly when there is no second scored row;
\* rows without a score hold neither position; growth = latest_score - prior_score.
C7_GrowthLastTwoScored ==
    queried =>
        \A p \in {<<a.enrollment_id, a.subject_area, a.school_year>> : a \in assessments}
                 \cup {<<g.enrollment_id, g.subject_area, g.school_year>> : g \in v_growth_last_two} :
            LET S == ScoredIn(p)
            IN  IF S = {} THEN GrowthRowsOf(p) = {}
                ELSE /\ Cardinality(GrowthRowsOf(p)) = 1
                     /\ \A g \in GrowthRowsOf(p) :
                           \E first \in Newest(S) :
                               /\ g.latest_score = first.score_normalized
                               /\ IF S = {first}
                                  THEN g.prior_score = NULLN /\ g.growth = NULLN
                                  ELSE \E second \in Newest(S \ {first}) :
                                          /\ g.prior_score = second.score_normalized
                                          /\ g.growth = first.score_normalized
                                                          - second.score_normalized

\* C7 witness: a partition of three assessments where the newest has no score and
\* the two scored ones differ in date and score; the growth record has both scores
C7_Witness ==
    /\ queried
    /\ \E a \in assessments, b \in assessments, c \in assessments :
          /\ <<a.subject_area, a.school_year>> = <<b.subject_area, b.school_year>>
          /\ <<a.subject_area, a.school_year>> = <<c.subject_area, c.school_year>>
          /\ c.score_normalized = NULLN
          /\ Newer(c, a)
          /\ Newer(a, b)
          /\ a.score_normalized # NULLN
          /\ b.score_normalized # NULLN
          /\ a.score_normalized # b.score_normalized
          /\ \E g \in v_growth_last_two :
                /\ g.latest_score = a.score_normalized
                /\ g.prior_score = b.score_normalized

-----------------------------------------------------------------------------
(* Properties of the trend (checked under SpecTrend) *)

\* the trend the rule gives for a difference of d tenths
TrendRuleOf(d) ==
    IF d >= 2 * Scale THEN "Improving" ELSE IF d <= 0 - 2 * Scale THEN "Declining" ELSE "Stable"

\* C5: every growth record with a missing prior_score has trend No Data; every
\* other one has Improving when latest - prior >= 2 points, Declining when
\* latest - prior <= -2 points, and Stable otherwise; and the growth record of a
\* subject with a Fall and a later Winter score compares the Winter score with
\* the Fall score, whatever the other subject holds.
C5_TrendRule ==
    queried =>
        /\ \A g \in v_growth_last_two :
              g.trend = IF g.prior_score = NULLN THEN "No Data"
                        ELSE TrendRuleOf(g.latest_score - g.prior_score)
        /\ \A a \in assessments, b \in assessments :
              (/\ a.subject_area = b.subject_area
               /\ a.assessment_period = "Fall"
               /\ b.assessment_period = "Winter"
               /\ a.score_normalized # NULLN
               /\ b.score_normalized # NULLN)
              => \E g \in v_growth_last_two :
                    /\ g.subject_area = a.subject_area
                    /\ g.trend = TrendRuleOf(b.score_normalized - a.score_normalized)

\* C5 witness: a growth record on the boundary, exactly +2 points, and Improving
C5_Witness ==
    /\ queried
    /\ \E g \in v_growth_last_two :
          /\ g.prior_score # NULLN
          /\ g.latest_score - g.prior_score = 2 * Scale
          /\ g.trend = "Improving"

\* the trend of the growth records with these two scores, in tenths
TrendIs(prior, last, trend) ==
    \A g \in v_growth_last_two :
        (g.prior_score = prior /\ g.latest_score = last) => g.trend = trend

\* C6 as claimed: trend(70, 73) = Stable, trend(70, 72.5) = Stable,
\* trend(70, 72) = Improving, trend(70, 67.9) = Declining.
C6_AsClaimed ==
    queried =>
        /\ TrendIs(700, 730, "Stable")
        /\ TrendIs(700, 725, "Stable")
        /\ TrendIs(700, 720, "Improving")
        /\ TrendIs(700, 679, "Declining")

\* C6 amended: trend(70, 73) = Improving, trend(70, 72.5) = Improving,
\* trend(70, 72) = Improving, trend(70, 67.9) = Declining, and the trend of a
\* growth record is decided by its two scores alone.
C6_TrendExamples ==
    queried =>
        /\ TrendIs(700, 730, "Improving")
        /\ TrendIs(700, 725, "Improving")
        /\ TrendIs(700, 720, "Improving")
        /\ TrendIs(700, 679, "Declining")
        /\ \A g \in v_growth_last_two :
              g.prior_score # NULLN => g.trend = TrendRuleOf(g.latest_score - g.prior_score)

\* C6 witness: the growth record of prior 70 and latest 72.5 has been read
C6_Witness ==
    /\ queried
    /\ \E g \in v_growth_last_two :
          g.prior_score = 700 /\ g.latest_score = 725 /\ g.trend = "Improving"

-----------------------------------------------------------------------------
(* Properties of the priority score and reasons (checked under SpecPrio) *)

\* 1 when the condition holds, else 0
Fires(condition) == IF condition THEN 1 ELSE 0

\* C3: the priority score of every row is the sum of the contributions that
\* apply: +5 Intensive, +3 Strategic, +3 Declining, +1 Stable, +2 for more than
\* 90 days, +1 for more than 60 and at most 90 days, +2 for no active intervention
\* on an Intensive or Strategic row; a missing trend, No Data, Improving and
\* missing days add nothing. Intensive, Declining, no intervention and 95 days
\* give 12.
C3_PriorityAdditive ==
    queried =>
        \A x \in v_priority_students :
            LET days == x.days_since_assessment
            IN  /\ x.priority_score =
                      5 * Fires(x.tier = "Intensive")
                      + 3 * Fires(x.tier = "Strategic")
                      + 3 * Fires(x.trend = "Declining")
                      + 1 * Fires(x.trend = "Stable")
                      + 2 * Fires(days # NULLN /\ days > 90)
                      + 1 * Fires(days # NULLN /\ days > 60 /\ days <= 90)
                      + 2 * Fires(~x.has_active_intervention
                                  /\ x.tier \in {"Intensive", "Strategic"})
                /\ (/\ x.tier = "Intensive"
                    /\ x.trend = "Declining"
                    /\ ~x.has_active_intervention
                    /\ days = 95) => x.priority_score = 12

\* C3 witness: an Intensive, Declining row without intervention, 95 days after the
\* assessment, scored 12
C3_Witness ==
    /\ queried
    /\ \E x \in v_priority_students :
          /\ x.tier = "Intensive"
          /\ x.trend = "Declining"
          /\ ~x.has_active_intervention
          /\ x.days_since_assessment = 95
          /\ x.priority_score = 12

RECURSIVE JoinTexts(_, _)
\* the texts of a sequence joined by a separator
JoinTexts(texts, sep) ==
    IF texts = <<>> THEN <<>>
    ELSE IF Len(texts) = 1 THEN texts[1]
    ELSE texts[1] \o sep \o JoinTexts(Tail(texts), sep)

\* the reason strings of the rules that fired for row x, in display order
FiredReasons(x) ==
    (IF x.tier = "Intensive" THEN <<IntensiveTierText>> ELSE <<>>)
    \o (IF x.tier = "Strategic" THEN <<StrategicTierText>> ELSE <<>>)
    \o (IF x.trend = "Declining" THEN <<DecliningText>> ELSE <<>>)
    \o (IF ~x.has_active_intervention /\ x.tier \in {"Intensive", "Strategic"}
        THEN <<NoInterventionText>> ELSE <<>>)
    \o (IF x.days_since_assessment # NULLN /\ x.days_since_assessment > 90
        THEN <<OverdueText>> ELSE <<>>)

\* C4: the reasons of every row are exactly the strings of the rules that fired,
\* in the order tier label, Declining growth trend, No active intervention,
\* Overdue assessment (>90d), joined by ' | ', with no separator at either end
\* and nothing in the place of a rule that did not fire; empty when none fired.
C4_ReasonsJoined ==
    queried =>
        \A x \in v_priority_students :
            x.reasons = JoinTexts(FiredReasons(x), <<" ", "|", " ">>)

\* C4 witness: a row where the tier, intervention and overdue rules fired and the
\* Declining rule between them did not
C4_Witness ==
    /\ queried
    /\ \E x \in v_priority_students :
          /\ Len(FiredReasons(x)) = 3
          /\ x.trend # "Declining"
          /\ x.reasons = StrategicTierText \o <<" ", "|", " ">> \o NoInterventionText
                            \o <<" ", "|", " ">> \o OverdueText

-----------------------------------------------------------------------------
(* The end-to-end scenario (checked under SpecPrio) *)

\* the tables hold the scenario: a Fall Math assessment of 55 and a later Winter
\* Math assessment of 58 of one enrollment and school year, and thresholds 60 / 75
\* for both periods
Scenario ==
    /\ \E a \in assessments, b \in assessments :
          /\ a.enrollment_id = b.enrollment_id
          /\ <<a.subject_area, a.school_year, a.assessment_period, a.score_normalized>>
                = <<"Math", "Y1", "Fall", 550>>
          /\ <<b.subject_area, b.school_year, b.assessment_period, b.score_normalized>>
                = <<"Math", "Y1", "Winter", 580>>
          /\ Newer(b, a)
    /\ \A period \in {"Fall", "Winter"} :
          \E t \in benchmark_thresholds :
              /\ t.assessment_period = period
              /\ <<t.support_threshold, t.benchmark_threshold>> = <<600, 750>>

\* C11: in the end-to-end scenario (Fall 55, later Winter 58, thresholds 60 / 75
\* for both periods) the enrollment has one priority row, with support_status
\* Needs Support, tier Intensive, trend Improving and a priority_score of at
\* least 5, whatever the interventions and the days since the assessment.
C11_EndToEnd ==
    (queried /\ Scenario) =>
        /\ Cardinality(v_priority_students) = 1
        /\ \A x \in v_priority_students :
              /\ x.latest_score = 580
              /\ x.support_status = "Needs Support"
              /\ x.tier = "Intensive"
              /\ x.trend = "Improving"
              /\ x.priority_score >= 5

\* C11 witness: the scenario read with an active intervention 60 days after the
\* Winter assessment, where the Intensive contribution is the whole score
C11_Witness ==
    /\ queried
    /\ Scenario
    /\ \E x \in v_priority_students :
          /\ x.has_active_intervention
          /\ x.days_since_assessment = 60
          /\ x.tier = "Intensive"
          /\ x.priority_score = 5

-----------------------------------------------------------------------------
(* Properties of the intervention flag (checked under SpecPrio) *)

\* text sub occurs in text s
Contains(s, sub) ==
    \E i \in 1..(Len(s) - Len(sub) + 1) : SubSeq(s, i, i + Len(sub) - 1) = sub

\* the status contains 'active', 'in progress' or 'ongoing', in any letter case
StatusContainsActive(status) ==
    /\ status # NULLS
    /\ \E word \in {<<"a", "c", "t", "i", "v", "e">>,
                    <<"i", "n", " ", "p", "r", "o", "g", "r", "e", "s", "s">>,
                    <<"o", "n", "g", "o", "i", "n", "g">>} :
          Contains([i \in 1..Len(status) |-> LowerChar(status[i])], word)

\* C12 as claimed: has_active_intervention of a roster row is TRUE exactly when an
\* intervention of its enrollment has a status that contains 'active',
\* 'in progress' or 'ongoing' in any letter case; an intervention with a missing
\* status does not count.
C12_AsClaimed ==
    queried =>
        \A r \in v_teacher_roster :
            r.has_active_intervention
            <=> \E i \in interventions :
                    i.enrollment_id = r.enrollment_id /\ StatusContainsActive(i.status)

\* C13 as claimed: a row of an enrollment and subject with no intervention of that
\* enrollment and subject has has_active_intervention FALSE, and when its tier is
\* Intensive or Strategic its priority_score holds the +2 of 'No active
\* intervention'; an intervention of another subject changes neither.
C13_AsClaimed ==
    queried =>
        \A x \in v_priority_students :
            (\A i \in interventions :
                ~(i.enrollment_id = x.enrollment_id /\ i.subject_area = x.subject_area))
            => /\ ~x.has_active_intervention
               /\ x.tier \in {"Intensive", "Strategic"}
                  => x.priority_score >= 2 + (IF x.tier = "Intensive" THEN 5 ELSE 3)

-----------------------------------------------------------------------------
(* Properties of the cohort KPIs (checked under SpecKpi) *)

\* the enrollments of the cohort of a teacher and school year
CohortOf(teacher, year) ==
    {e \in student_enrollments : e.teacher_name = teacher /\ e.school_year = year}

\* the scored assessments of enrollment e in a subject
ScoredFor(e, subject) ==
    {a \in assessments :
        /\ a.enrollment_id = e.enrollment_id
        /\ a.subject_area = subject
        /\ a.score_normalized # NULLN}

\* the enrollments of a cohort that have a scored and dated assessment in a subject
\* more than 'over' days old
ScoredOlderThan(teacher, year, subject, over) ==
    {e \in CohortOf(teacher, year) :
        \E a \in ScoredFor(e, subject) :
            a.effective_date # NULLN /\ today - a.effective_date > over}

\* C14 as claimed: the KPI row of a teacher, school year and subject counts every
\* enrollment of the teacher and year in total_students, also those without a
\* scored assessment in the subject, and counts only those with a scored
\* assessment in assessed_students, and only those of them that are dated in
\* overdue_count and in the median; assessed_students <= total_students,
\* overdue_count <= total_students, and the median is missing when no enrollment
\* has a dated assessment.
C14_AsClaimed ==
    queried =>
        \A k \in v_teacher_kpis :
            k.subject_area # NULL =>
                LET C == CohortOf(k.teacher_name, k.school_year)
                    dated == ScoredOlderThan(k.teacher_name, k.school_year, k.subject_area, 0 - 1)
                IN  /\ k.total_students = Cardinality(C)
                    /\ k.assessed_students
                          = Cardinality({e \in C : ScoredFor(e, k.subject_area) # {}})
                    /\ k.overdue_count
                          = Cardinality(ScoredOlderThan(k.teacher_name, k.school_year,
                                                        k.subject_area, 90))
                    /\ k.assessed_students <= k.total_students
                    /\ k.overdue_count <= k.total_students
                    /\ (dated = {}) => (k.median_days_since = NULLN)

-----------------------------------------------------------------------------
(* Properties of the migration and of the rows entered after it (checked under
   SpecMigrate) *)

\* the date of a row under the fallback policy: its effective_date, else its
\* assessment_date, else the day of its insertion
FallbackDate(a) ==
    IF a.effective_date # NULLN THEN a.effective_date
    ELSE IF a.assessment_date # NULLN THEN a.assessment_date
    ELSE a.created_at \div TicksPerDay

\* C15 as claimed: the row the latest CTE holds for an enrollment and subject is a
\* row of the newest date under the fallback policy (effective_date, else
\* assessment_date, else insertion time); a row entered without effective_date
\* but with the newest assessment_date is the current row.
C15_AsClaimed ==
    queried =>
        \A l \in latest :
            \E m \in assessments :
                /\ m.enrollment_id = l.enrollment_id
                /\ m.subject_area = l.subject_area
                /\ l = LatestRow(m)
                /\ \A b \in assessments :
                      (b.enrollment_id = m.enrollment_id /\ b.subject_area = m.subject_area)
                      => FallbackDate(b) <= FallbackDate(m)

\* the window of an assessment
WindowOf(a) ==
    <<a.enrollment_id, a.subject_area, a.assessment_type, a.assessment_period, a.school_year>>

\* the rows without enrollment, and of every window the row of the largest assessment_id
Survivors(A) ==
    {a \in A :
        \/ a.enrollment_id = NULL
        \/ \A b \in A : WindowOf(b) = WindowOf(a) => b.assessment_id <= a.assessment_id}

\* no two rows with an enrollment share a window
OneRowPerWindow ==
    \A a \in assessments, b \in assessments :
        (a.enrollment_id # NULL /\ WindowOf(a) = WindowOf(b)) => a = b

\* C16 as claimed: the deduplication keeps, of every window with an enrollment,
\* exactly the row of the largest assessment_id and leaves the rows without
\* enrollment unchanged; and from then on, through the index and any later
\* inserts, no two rows with an enrollment share a window.
C16_AsClaimed ==
    /\ [][(migration = "dedupe" /\ migration' = "index")
            => assessments' = Survivors(assessments)]_vars
    /\ [](migration \in {"index", "done"} => OneRowPerWindow)

-----------------------------------------------------------------------------
(* Determinism of the reads (checked under Spec) *)

\* C17 as claimed: a read that follows a read with no write in between, on the
\* same date, gives the same support status, growth and priority rows, also
\* when assessments of one enrollment and subject share effective_date and
\* created_at.
C17_AsClaimed ==
    [][(queried /\ queried' /\ tables' = tables)
        => /\ v_support_status' = v_support_status
           /\ v_growth_last_two' = v_growth_last_two
           /\ v_priority_students' = v_priority_students]_vars

-----------------------------------------------------------------------------
(* Properties of the tier history (checked under SpecHistory) *)

\* C18 as claimed: after any sequence of snapshot statements tier_history holds at
\* most one row for every (enrollment_id, subject_area, school_year,
\* assessment_period), a missing assessment_period included.
C18_AsClaimed ==
    \A h \in tier_history, k \in tier_history :
        (<<h.enrollment_id, h.subject_area, h.school_year, h.assessment_period>>
            = <<k.enrollment_id, k.subject_area, k.school_year, k.assessment_period>>)
        => h = k

-----------------------------------------------------------------------------
(* The Student Detail page of the web client (web/src/pages/StudentDetail.tsx). *)
(* page is the state of the mounted component: the location, the useState     *)
(* values, the requests in flight and, for each effect, the dependencies it    *)
(* last ran with (<<>> before its first run), and acts, the number of actions *)
(* of the user so far. The page is opened without an                         *)
(* ?id= parameter, and the pieces of state that no modelled handler changes   *)
(* (notes; the trend and days_since_assessment of the header, which pass      *)
(* through as tier does) are left out. Dates are day numbers: ISO date        *)
(* strings compare as their days do, and the empty string sorts first.        *)
(* A boolean that can be null is held as "true", "false" or NULL. A school    *)
(* year is the number of its first year, and 0 is the empty string. An effect *)
(* that depends on an array depends on its identity: setting a new array      *)
(* sets the remembered dependencies of that effect back to <<>>.             *)

\* the literal 'student' of the route paths, and the literal '/student'
StudentSegment == <<"s", "t", "u", "d", "e", "n", "t">>
SlashStudent == <<"/">> \o StudentSegment
\* the literal 'enrollment' of the route path
EnrollmentSegment == <<"e", "n", "r", "o", "l", "l", "m", "e", "n", "t">>
\* the text `/app/${subject}/student/${student_uuid}`
StudentPath(subject, student_uuid) ==
    <<"/", "a", "p", "p", "/">> \o subject \o SlashStudent \o <<"/">> \o student_uuid
\* the location /app/:subject/enrollment/:enrollmentId
EnrollmentPath(subject, enrollment_id) ==
    <<"/", "a", "p", "p", "/">> \o subject \o <<"/">> \o EnrollmentSegment \o <<"/">>
        \o enrollment_id
\* the location /app/:subject/student
PickerPath(subject) == <<"/", "a", "p", "p", "/">> \o subject \o SlashStudent

\* String.prototype.includes
Includes(s, sub) ==
    \E i \in 1..(Len(s) - Len(sub) + 1) : SubSeq(s, i, i + Len(sub) - 1) = sub

RECURSIVE SplitPath(_, _)
\* the segments of a path between its slashes
SplitPath(s, segment) ==
    IF s = <<>> THEN <<segment>>
    ELSE IF Head(s) = "/" THEN <<segment>> \o SplitPath(Tail(s), <<>>)
    ELSE SplitPath(Tail(s), Append(segment, Head(s)))

\* useParams under the routes of App: an absent parameter is NULL
Params(pathname) ==
    LET seg == SplitPath(pathname, <<>>)
    IN  [subject |-> seg[3],
         studentUuid |-> IF Len(seg) = 5 /\ seg[4] = StudentSegment THEN seg[5] ELSE NULLS,
         enrollmentId |->
             IF Len(seg) = 5 /\ seg[4] = EnrollmentSegment THEN seg[5] ELSE NULLS]

isOnStudentPage(pg) == Includes(pg.pathname, SlashStudent)
isUuidMode(pg) == isOnStudentPage(pg)
isEnrollmentMode(pg) ==
    /\ Params(pg.pathname).enrollmentId \notin {NULLS, <<>>}
    /\ Params(pg.pathname).studentUuid \in {NULLS, <<>>}
isLegacyMode(pg) == ~isOnStudentPage(pg)

\* a ?? b
Nullish(a, b) == IF a # NULLN THEN a ELSE b

\* the empty string among the dates
EmptyDate == 0
\* x.localeCompare(y) of two date strings
LocaleCompare(x, y) == IF x < y THEN 0 - 1 ELSE IF x > y THEN 1 ELSE 0

\* an element of the assessments of a detail response
ApiAssessment(score_normalized, effective_date, assessment_date) ==
    [score_normalized |-> score_normalized, effective_date |-> effective_date,
     assessment_date |-> assessment_date]

\* a header of a detail response, and the null header
ApiHeader(latest_score, tier, last_assessed_date, has_active_intervention, goal_status) ==
    [null |-> FALSE, latest_score |-> latest_score, tier |-> tier,
     last_assessed_date |-> last_assessed_date,
     has_active_intervention |-> has_active_intervention, goal_status |-> goal_status]
NullHeader ==
    [null |-> TRUE, latest_score |-> NULLN, tier |-> NULL, last_assessed_date |-> NULLN,
     has_active_intervention |-> NULL, goal_status |-> NULL]

\* an element of the interventions of a detail response
ApiIntervention(status) == [status |-> status]

\* an element of score_over_time
ScorePoint(score, assessment_type) == [score |-> score, assessment_type |-> assessment_type]

\* the body of a detail response
Response(header, assessmentRows, interventionRows, score_over_time, goals) ==
    [header |-> header, assessments |-> assessmentRows, interventions |-> interventionRows,
     score_over_time |-> score_over_time, goals |-> goals]

\* the response d to a request for (uuid, eids) as uuidDetail keeps it, and the
\* null uuidDetail
Detail(d, enrollments, uuid, eids) ==
    [null |-> FALSE, header |-> d.header, enrollments |-> enrollments,
     student_uuid |-> uuid, selected_enrollment_ids |-> eids]
NullDetail ==
    [null |-> TRUE, header |-> NullHeader, enrollments |-> <<>>,
     student_uuid |-> NULLS, selected_enrollment_ids |-> <<>>]

\* a JavaScript boolean as the header carries it
JsBool(b) == IF b THEN "true" ELSE "false"

\* String.prototype.toLowerCase
toLowerCase(s) == Lower(s)

\* interventions.some(i => (i.status ?? '').toLowerCase().includes('active'))
derivedIntervention(interventionRows) ==
    \E i \in 1..Len(interventionRows) :
        Includes(toLowerCase(IF interventionRows[i].status # NULLS
                             THEN interventionRows[i].status ELSE <<>>),
                 <<"a", "c", "t", "i", "v", "e">>)

\* goals.length > 0 ? 'Has goals' : 'No goals'
derivedGoalStatus(goals) == IF Len(goals) > 0 THEN "Has goals" ELSE "No goals"

hasScore(a) == a.score_normalized # NULLN

\* the comparator of the sort of lastWithScore
CompareScored(a, b) ==
    LET da == Nullish(Nullish(a.effective_date, a.assessment_date), EmptyDate)
        db == Nullish(Nullish(b.effective_date, b.assessment_date), EmptyDate)
    IN  LocaleCompare(db, da)

RECURSIVE SortInsert(_, _)
\* one step of the stable Array.prototype.sort: x goes before the first element
\* the comparator puts after it
SortInsert(sorted, x) ==
    IF sorted = <<>> THEN <<x>>
    ELSE IF CompareScored(Head(sorted), x) > 0 THEN <<x>> \o sorted
    ELSE <<Head(sorted)>> \o SortInsert(Tail(sorted), x)

RECURSIVE SortScored(_)
\* [...scored].sort(comparator)
SortScored(scored) ==
    IF scored = <<>> THEN <<>>
    ELSE SortInsert(SortScored(SubSeq(scored, 1, Len(scored) - 1)), scored[Len(scored)])

\* lastWithScore, as a list of no or one row
lastWithScore(assessmentRows) ==
    LET scored == SelectSeq(assessmentRows, hasScore)
    IN  IF Len(scored) > 0 THEN <<SortScored(scored)[Len(scored)]>> ELSE <<>>

derivedLatestScore(assessmentRows) ==
    LET last == lastWithScore(assessmentRows)
    IN  IF last # <<>> THEN last[1].score_normalized ELSE NULLN

derivedLastDate(assessmentRows) ==
    LET last == lastWithScore(assessmentRows)
    IN  IF last # <<>> THEN Nullish(last[1].effective_date, last[1].assessment_date)
        ELSE NULLN

\* displayHeader: the values of the KPI strip
displayHeader(pg) ==
    IF isLegacyMode(pg) /\ Len(pg.scoresHistory) > 0
    THEN ApiHeader(pg.scoresHistory[Len(pg.scoresHistory)].score, NULL, NULLN,
                   JsBool(derivedIntervention(pg.interventions)),
                   derivedGoalStatus(pg.goals))
    ELSE LET h == IF isUuidMode(pg) /\ ~pg.uuidDetail.null
                         /\ pg.uuidDetail.header # NullHeader
                  THEN pg.uuidDetail.header ELSE pg.header
         IN  IF h = NullHeader
             THEN IF Len(pg.assessments) = 0 THEN NullHeader
                  ELSE ApiHeader(derivedLatestScore(pg.assessments), NULL,
                                 derivedLastDate(pg.assessments),
                                 JsBool(derivedIntervention(pg.interventions)),
                                 derivedGoalStatus(pg.goals))
             ELSE [h EXCEPT
                      !.latest_score =
                          Nullish(h.latest_score, derivedLatestScore(pg.assessments)),
                      !.last_assessed_date =
                          Nullish(h.last_assessed_date, derivedLastDate(pg.assessments)),
                      !.has_active_intervention =
                          IF h.has_active_intervention # NULL
                          THEN h.has_active_intervention
                          ELSE JsBool(derivedIntervention(pg.interventions)),
                      !.goal_status =
                          IF h.goal_status # NULL THEN h.goal_status
                          ELSE derivedGoalStatus(pg.goals)]

\* a render of the component after a change of its state
Render(pg) == [pg EXCEPT !.displayed = displayHeader(pg)]

\* a request in flight
Request(api, arg, eids) == [api |-> api, arg |-> arg, eids |-> eids]

\* an element of the enrollments of GET /api/enrollments
ApiEnrollment(enrollment_id, student_uuid, school_year) ==
    [enrollment_id |-> enrollment_id, student_uuid |-> student_uuid,
     school_year |-> school_year]

\* the enrollments of a detail response: all the enrollments of the student
EnrollmentsOf(server, uuid) == SelectSeq(server, LAMBDA e : e.student_uuid = uuid)

\* allEnrollments.find(e => e.enrollment_id === id), as a list of no or one element
FindEnrollment(enrollments, id) ==
    LET found == SelectSeq(enrollments, LAMBDA e : e.enrollment_id = id)
    IN  IF found = <<>> THEN <<>> ELSE <<Head(found)>>

\* the dependencies of the effects
LoadDeps(pg) == <<isLegacyMode(pg)>>
DetailDeps(pg) == <<isUuidMode(pg), Params(pg.pathname).studentUuid>>
RedirectDeps(pg) ==
    <<isEnrollmentMode(pg), Params(pg.pathname).enrollmentId, pg.allEnrollments,
      Params(pg.pathname).subject>>
LegacyDeps(pg) == <<isLegacyMode(pg)>>

\* the effect that loads all enrollments for the student picker
LoadEnrollments ==
    /\ page # NoPage
    /\ page.loadDeps # LoadDeps(page)
    /\ page' = Render([page EXCEPT
           !.loadDeps = LoadDeps(page),
           !.requests = @ \cup {IF ~isLegacyMode(page)
                                THEN Request("getEnrollments", NULLS, <<>>)
                                ELSE Request("getStudents", NULLS, <<>>)}])
    /\ UNCHANGED <<tables, queried, views, overview>>

\* api.getEnrollments().then(r => setAllEnrollments(r.enrollments))
GetEnrollmentsResponse ==
    /\ page # NoPage
    /\ Request("getEnrollments", NULLS, <<>>) \in page.requests
    /\ page' = Render([page EXCEPT
           !.requests = @ \ {Request("getEnrollments", NULLS, <<>>)},
           !.allEnrollments = page.server])
    /\ UNCHANGED <<tables, queried, views, overview>>

\* api.getStudents().then(r => setStudents(r.students))
GetStudentsResponse ==
    /\ page # NoPage
    /\ Request("getStudents", NULLS, <<>>) \in page.requests
    /\ page' = Render([page EXCEPT
           !.requests = @ \ {Request("getStudents", NULLS, <<>>)},
           !.students = TRUE])
    /\ UNCHANGED <<tables, queried, views, overview>>

\* the effect of UUID mode: fetch the detail of the student of the URL, or
\* clear the detail when no student is selected
FetchUuidDetail ==
    /\ page # NoPage
    /\ page.detailDeps # DetailDeps(page)
    /\ LET uuid == Params(page.pathname).studentUuid
       IN  page' = Render(
               IF isUuidMode(page) /\ uuid \notin {NULLS, <<>>}
               THEN [page EXCEPT
                        !.detailDeps = DetailDeps(page),
                        !.selectedEnrollmentIds = <<>>,
                        !.filterDeps = <<>>,
                        !.filterApplied = FALSE,
                        !.selectedAssessmentType = "",
                        !.loading = TRUE,
                        !.requests = @ \cup {Request("getStudentDetailByUuid", uuid, <<>>)}]
               ELSE IF isUuidMode(page)
               THEN [page EXCEPT
                        !.detailDeps = DetailDeps(page),
                        !.selectedAssessmentType = "",
                        !.uuidDetail = NullDetail,
                        !.header = NullHeader,
                        !.assessments = <<>>,
                        !.interventions = <<>>,
                        !.scoresHistory = <<>>,
                        !.goals = <<>>]
               ELSE [page EXCEPT !.detailDeps = DetailDeps(page)])
    /\ UNCHANGED <<tables, queried, views, overview>>

\* the rows, headers and score histories a detail response can carry
MaxRows == 2
ApiRows ==
    {ApiAssessment(s, d[1], d[2]) :
        s \in {NULLN, 55, 58},
        d \in {<<1, NULLN>>, <<NULLN, 2>>, <<3, 1>>, <<NULLN, NULLN>>}}
RowLists == UNION {[1..n -> ApiRows] : n \in 0..MaxRows}
Headers ==
    {NullHeader, ApiHeader(NULLN, NULL, NULLN, NULL, NULL),
     ApiHeader(60, "Core", 9, "false", "No goals")}
Histories == {<<>>, <<ScorePoint(55, NULL)>>}
\* the responses of the backend to a detail request: every header, list of rows
\* and history, with no intervention and no goal
Details ==
    {Response(header, rows, <<>>, score_over_time, <<>>) :
        header \in Headers, rows \in RowLists, score_over_time \in Histories}

\* the statuses of the interventions of a response; NULLS is a missing status
Active == <<"A", "c", "t", "i", "v", "e">>
InProgress == <<"I", "n", " ", "P", "r", "o", "g", "r", "e", "s", "s">>
Ongoing == <<"O", "N", "G", "O", "I", "N", "G">>
Completed == <<"C", "o", "m", "p", "l", "e", "t", "e", "d">>
ApiStatuses == {Active, InProgress, Ongoing, Completed, NULLS}

MaxListed == 2
InterventionLists ==
    UNION {[1..n -> {ApiIntervention(status) : status \in ApiStatuses}] : n \in 0..MaxListed}

\* headers with every field, with no field and with some fields
StripHeaders ==
    Headers \cup {ApiHeader(NULLN, "Intensive", 9, "true", NULL),
                  ApiHeader(60, NULL, NULLN, NULL, "On track")}

\* the responses: every header with every list of rows, and every list of
\* interventions, with and without goals, under the headers that leave the
\* intervention flag to the page
StripDetails ==
    {Response(header, rows, <<>>, <<>>, <<>>) :
        header \in StripHeaders, rows \in RowLists}
    \cup
    {Response(header, rows, listed, <<>>, goals) :
        header \in {NullHeader, ApiHeader(NULLN, NULL, NULLN, NULL, NULL),
                    ApiHeader(60, NULL, NULLN, NULL, "On track")},
        rows \in {<<>>, <<ApiAssessment(55, 1, NULLN)>>},
        listed \in InterventionLists,
        goals \in {<<>>, <<"goal">>}}

\* the assessment types of the score histories, in the order sort() gives
AssessmentTypes == <<"Benchmark", "Easy CBM">>

\* score histories of one type, of the other, of both and of none
TypedHistories ==
    {<<>>, <<ScorePoint(50, "Benchmark")>>, <<ScorePoint(40, "Easy CBM")>>,
     <<ScorePoint(50, "Benchmark"), ScorePoint(40, "Easy CBM")>>}

\* the responses that differ by their score history only
ChartDetails ==
    {Response(ApiHeader(60, "Core", 9, "false", "No goals"), <<>>, <<>>, score_over_time, <<>>) :
        score_over_time \in TypedHistories}

\* the responses the named backend gives to a detail request
BackendDetails(backend) ==
    CASE backend = "page" -> Details
      [] backend = "strip" -> StripDetails
      [] backend = "chart" -> ChartDetails

\* the then of fetchUuidDetail: the response d fills the detail state
DetailResponse ==
    /\ page # NoPage
    /\ \E r \in page.requests, d \in BackendDetails(page.backend) :
        /\ r.api = "getStudentDetailByUuid"
        /\ page' = Render([page EXCEPT
               !.requests = @ \ {r},
               !.uuidDetail = Detail(d, EnrollmentsOf(page.server, r.arg), r.arg, r.eids),
               !.header = d.header,
               !.assessments = d.assessments,
               !.interventions = d.interventions,
               !.scoresHistory = d.score_over_time,
               !.goals = d.goals,
               !.loading = FALSE])
    /\ UNCHANGED <<tables, queried, views, overview>>

\* the catch of fetchUuidDetail
DetailError ==
    /\ page # NoPage
    /\ \E r \in page.requests :
        /\ r.api = "getStudentDetailByUuid"
        /\ page' = Render([page EXCEPT
               !.requests = @ \ {r},
               !.uuidDetail = NullDetail,
               !.header = NullHeader,
               !.loading = FALSE])
    /\ UNCHANGED <<tables, queried, views, overview>>

\* the effect of enrollment mode: redirect to UUID mode when the enrollment of
\* the URL resolves to a student_uuid
RedirectToUuid ==
    /\ page # NoPage
    /\ page.redirectDeps # RedirectDeps(page)
    /\ LET p == Params(page.pathname)
           en == FindEnrollment(page.allEnrollments, p.enrollmentId)
       IN  page' = Render(
               IF /\ isEnrollmentMode(page)
                  /\ Len(page.allEnrollments) > 0
                  /\ en # <<>>
                  /\ en[1].student_uuid \notin {NULLS, <<>>}
               THEN [page EXCEPT
                        !.redirectDeps = RedirectDeps(page),
                        !.pathname = StudentPath(p.subject, en[1].student_uuid)]
               ELSE [page EXCEPT !.redirectDeps = RedirectDeps(page)])
    /\ UNCHANGED <<tables, queried, views, overview>>

\* the effect of legacy mode with no selected id: clear the display state
LegacyFetch ==
    /\ page # NoPage
    /\ page.legacyDeps # LegacyDeps(page)
    /\ page' = Render(
           IF ~isLegacyMode(page)
           THEN [page EXCEPT !.legacyDeps = LegacyDeps(page)]
           ELSE [page EXCEPT
                    !.legacyDeps = LegacyDeps(page),
                    !.assessments = <<>>,
                    !.interventions = <<>>,
                    !.scoresHistory = <<>>,
                    !.header = NullHeader,
                    !.goals = <<>>])
    /\ UNCHANGED <<tables, queried, views, overview>>

\* the subjects, enrollment ids and student uuids of the URLs and of the backend
Subjects == {<<"m", "a", "t", "h">>, <<"r", "e", "a", "d", "i", "n", "g">>}
E1 == <<"e", "1">>
E2 == <<"e", "2">>
U1 == <<"u", "1">>
U2 == <<"u", "2">>

\* the locations the page can be opened on
Locations ==
    UNION {{StudentPath(s, U1), EnrollmentPath(s, E1), EnrollmentPath(s, E2), PickerPath(s)} :
              s \in Subjects}

\* the enrollments the backend can hold
Backends ==
    {<<>>,
     <<ApiEnrollment(E1, U1, 2024)>>,
     <<ApiEnrollment(E1, NULLS, 2024)>>,
     <<ApiEnrollment(E2, U2, 2024), ApiEnrollment(E1, U1, 2024)>>}

\* the component as mounted on a location
Mounted(pathname, server, backend) ==
    [pathname |-> pathname, opened |-> pathname, server |-> server, backend |-> backend,
     allEnrollments |-> <<>>, students |-> FALSE, requests |-> {},
     uuidDetail |-> NullDetail, header |-> NullHeader, assessments |-> <<>>,
     interventions |-> <<>>, scoresHistory |-> <<>>, goals |-> <<>>, loading |-> FALSE,
     selectedEnrollmentIds |-> <<>>, filterApplied |-> FALSE,
     selectedAssessmentType |-> "", acts |-> 0,
     loadDeps |-> <<>>, detailDeps |-> <<>>, redirectDeps |-> <<>>, legacyDeps |-> <<>>,
     filterDeps |-> <<>>, typeDeps |-> <<>>,
     displayed |-> NullHeader]

InitPage ==
    /\ student_enrollments = {}
    /\ assessments = {}
    /\ benchmark_thresholds = {}
    /\ interventions = {}
    /\ today = 0
    /\ migration = "done"
    /\ tier_history = {}
    /\ NoRead
    /\ overview = NoOverview
    /\ \E pathname \in Locations, server \in Backends : page = Mounted(pathname, server, "page")

NextPage ==
    \/ LoadEnrollments
    \/ GetEnrollmentsResponse
    \/ GetStudentsResponse
    \/ FetchUuidDetail
    \/ DetailResponse
    \/ DetailError
    \/ RedirectToUuid
    \/ LegacyFetch

SpecPage == InitPage /\ [][NextPage]_vars

-----------------------------------------------------------------------------
(* The KPI strip of the Student Detail page: the page opened on a student,    *)
(* with the headers, rows, interventions and goals a response can carry.      *)

InitStrip ==
    /\ student_enrollments = {}
    /\ assessments = {}
    /\ benchmark_thresholds = {}
    /\ interventions = {}
    /\ today = 0
    /\ migration = "done"
    /\ tier_history = {}
    /\ NoRead
    /\ overview = NoOverview
    /\ \E subject \in Subjects :
           page = Mounted(StudentPath(subject, U1), <<ApiEnrollment(E1, U1, 2024)>>, "strip")

NextStrip ==
    \/ LoadEnrollments
    \/ GetEnrollmentsResponse
    \/ FetchUuidDetail
    \/ DetailResponse
    \/ DetailError
    \/ RedirectToUuid
    \/ LegacyFetch

SpecStrip == InitStrip /\ [][NextStrip]_vars

-----------------------------------------------------------------------------
(* The enrollment filter and the assessment-type filter of the Student Detail *)
(* page. A handler of the user runs once the effects of the last render have  *)
(* run, and acts counts the handlers that have run.                           *)

MaxActs == 2

\* Array.prototype.includes
ArrayIncludes(arr, x) == \E i \in 1..Len(arr) : arr[i] = x

\* arr.map(e => e.enrollment_id)
Ids(enrollments) == [i \in 1..Len(enrollments) |-> enrollments[i].enrollment_id]

\* uuidDetail?.enrollments ?? []
studentEnrollments(pg) == IF pg.uuidDetail.null THEN <<>> ELSE pg.uuidDetail.enrollments

isEnrollmentSelected(pg, eid) ==
    Len(pg.selectedEnrollmentIds) = 0 \/ ArrayIncludes(pg.selectedEnrollmentIds, eid)

\* next of toggleEnrollment: the selection with eid switched
Toggled(prev, allIds, eid) ==
    LET current == IF Len(prev) = 0 THEN allIds ELSE prev
    IN  IF ArrayIncludes(current, eid)
        THEN SelectSeq(current, LAMBDA id : id # eid)
        ELSE Append(current, eid)

\* toggleEnrollment without its guard against deselecting everything
toggleEnrollmentUnguarded(prev, allIds, eid) ==
    LET next == Toggled(prev, allIds, eid)
    IN  IF Len(next) = Len(allIds) /\ \A i \in 1..Len(allIds) : ArrayIncludes(next, allIds[i])
        THEN <<>>
        ELSE next

\* the updater of toggleEnrollment
toggleEnrollment(prev, allIds, eid) ==
    LET next == Toggled(prev, allIds, eid)
    IN  IF Len(next) = 0 THEN prev
        ELSE IF Len(next) = Len(allIds)
                /\ \A i \in 1..Len(allIds) : ArrayIncludes(next, allIds[i])
        THEN <<>>
        ELSE next

\* the dependencies of the refetch effect and of the type effect
FilterDeps(pg) == <<pg.selectedEnrollmentIds, pg.filterApplied>>
TypeDeps(pg) == <<Len(pg.scoresHistory)>>

\* every effect has run on the dependencies of the last render
EffectsFlushed(pg) ==
    /\ pg.loadDeps = LoadDeps(pg)
    /\ pg.detailDeps = DetailDeps(pg)
    /\ pg.redirectDeps = RedirectDeps(pg)
    /\ pg.legacyDeps = LegacyDeps(pg)
    /\ pg.filterDeps = FilterDeps(pg)
    /\ pg.typeDeps = TypeDeps(pg)

\* the filter chips and their two buttons are rendered
ChipsShown(pg) == isUuidMode(pg) /\ Len(studentEnrollments(pg)) > 0

\* the effect that fetches again when the enrollment selection changes
FilterEffect ==
    /\ page # NoPage
    /\ page.filterDeps # FilterDeps(page)
    /\ LET uuid == Params(page.pathname).studentUuid
       IN  page' = Render(
               IF page.filterApplied /\ isUuidMode(page) /\ uuid \notin {NULLS, <<>>}
               THEN [page EXCEPT
                        !.filterDeps = FilterDeps(page),
                        !.loading = TRUE,
                        !.requests = @ \cup {Request("getStudentDetailByUuid", uuid,
                                                     page.selectedEnrollmentIds)}]
               ELSE [page EXCEPT !.filterDeps = FilterDeps(page)])
    /\ UNCHANGED <<tables, queried, views, overview>>

\* the change of a filter chip
handleToggle(eid) ==
    /\ page # NoPage
    /\ ChipsShown(page)
    /\ EffectsFlushed(page)
    /\ page.acts < MaxActs
    /\ ArrayIncludes(Ids(studentEnrollments(page)), eid)
    /\ LET allIds == Ids(studentEnrollments(page))
           prev == page.selectedEnrollmentIds
           kept == Len(Toggled(prev, allIds, eid)) = 0
       IN  page' = Render([page EXCEPT
               !.filterApplied = TRUE,
               !.selectedEnrollmentIds = toggleEnrollment(prev, allIds, eid),
               !.filterDeps = IF kept THEN @ ELSE <<>>,
               !.acts = @ + 1])
    /\ UNCHANGED <<tables, queried, views, overview>>

\* the button Select all
selectAll ==
    /\ page # NoPage
    /\ ChipsShown(page)
    /\ EffectsFlushed(page)
    /\ page.acts < MaxActs
    /\ page' = Render([page EXCEPT
           !.filterApplied = TRUE,
           !.selectedEnrollmentIds = <<>>,
           !.filterDeps = <<>>,
           !.acts = @ + 1])
    /\ UNCHANGED <<tables, queried, views, overview>>

RECURSIVE latestYear(_)
\* studentEnrollments.reduce((max, e) => e.school_year > max ? e.school_year : max, '')
latestYear(enrollments) ==
    IF enrollments = <<>> THEN 0
    ELSE LET max == latestYear(SubSeq(enrollments, 1, Len(enrollments) - 1))
             e == enrollments[Len(enrollments)]
         IN  IF e.school_year > max THEN e.school_year ELSE max

\* the button Latest year only
deselectToLatestYear ==
    /\ page # NoPage
    /\ ChipsShown(page)
    /\ EffectsFlushed(page)
    /\ page.acts < MaxActs
    /\ LET latestIds ==
               Ids(SelectSeq(studentEnrollments(page),
                       LAMBDA e : e.school_year = latestYear(studentEnrollments(page))))
       IN  page' = Render([page EXCEPT
               !.filterApplied = TRUE,
               !.selectedEnrollmentIds = latestIds,
               !.filterDeps = <<>>,
               !.acts = @ + 1])
    /\ UNCHANGED <<tables, queried, views, overview>>

\* the unique assessment types of the score history, sorted
availableAssessmentTypes(pg) ==
    SelectSeq(AssessmentTypes,
        LAMBDA type : \E i \in 1..Len(pg.scoresHistory) :
            pg.scoresHistory[i].assessment_type = type)

\* the effect that initialises the selected type when the length of the
\* score history changes
TypeEffect ==
    /\ page # NoPage
    /\ page.typeDeps # TypeDeps(page)
    /\ page' = Render(
           IF Len(availableAssessmentTypes(page)) > 0 /\ page.selectedAssessmentType = ""
           THEN [page EXCEPT
                    !.typeDeps = TypeDeps(page),
                    !.selectedAssessmentType = availableAssessmentTypes(page)[1]]
           ELSE [page EXCEPT !.typeDeps = TypeDeps(page)])
    /\ UNCHANGED <<tables, queried, views, overview>>

\* the series of the chart Score Over Time
filteredScoresHistory(pg) ==
    SelectSeq(pg.scoresHistory,
        LAMBDA item :
            IF pg.selectedAssessmentType = "" THEN TRUE
            ELSE IF item.assessment_type \in {NULL, ""} THEN FALSE
            ELSE item.assessment_type = pg.selectedAssessmentType)

\* hasData, in UUID mode
hasData(pg) == ~pg.uuidDetail.null

\* the chart and its select are rendered
ChartShown(pg) == ~pg.loading /\ hasData(pg)

\* the value of the assessment type select
SelectValue(pg) ==
    IF pg.selectedAssessmentType # "" THEN pg.selectedAssessmentType
    ELSE IF Len(availableAssessmentTypes(pg)) > 0 THEN availableAssessmentTypes(pg)[1]
    ELSE ""

\* the change of the assessment type select to another of its options
SelectType(type) ==
    /\ page # NoPage
    /\ ChartShown(page)
    /\ EffectsFlushed(page)
    /\ page.acts < MaxActs
    /\ ArrayIncludes(availableAssessmentTypes(page), type)
    /\ type # SelectValue(page)
    /\ page' = Render([page EXCEPT !.selectedAssessmentType = type, !.acts = @ + 1])
    /\ UNCHANGED <<tables, queried, views, overview>>

\* the students of the picker: the first enrollment of each student_uuid
uniqueStudents(pg) ==
    {pg.allEnrollments[i].student_uuid : i \in 1..Len(pg.allEnrollments)}

\* the change of the student picker to another student
SelectStudent(uuid) ==
    /\ page # NoPage
    /\ isUuidMode(page) \/ isEnrollmentMode(page)
    /\ EffectsFlushed(page)
    /\ page.acts < MaxActs
    /\ uuid \in uniqueStudents(page)
    /\ uuid \notin {NULLS, <<>>, Params(page.pathname).studentUuid}
    /\ page' = Render([page EXCEPT
           !.pathname = StudentPath(Params(page.pathname).subject, uuid),
           !.acts = @ + 1])
    /\ UNCHANGED <<tables, queried, views, overview>>

E3 == <<"e", "3">>

\* a student with one enrollment, with two of two years and with two of one year
FilterBackends ==
    {<<ApiEnrollment(E1, U1, 2024)>>,
     <<ApiEnrollment(E1, U1, 2024), ApiEnrollment(E2, U1, 2025)>>,
     <<ApiEnrollment(E1, U1, 2025), ApiEnrollment(E2, U1, 2025)>>}

\* the page opened on that student
InitFilter ==
    /\ student_enrollments = {}
    /\ assessments = {}
    /\ benchmark_thresholds = {}
    /\ interventions = {}
    /\ today = 0
    /\ migration = "done"
    /\ tier_history = {}
    /\ NoRead
    /\ overview = NoOverview
    /\ \E server \in FilterBackends :
           page = Mounted(StudentPath(<<"m", "a", "t", "h">>, U1), server, "chart")

NextFilter ==
    \/ LoadEnrollments
    \/ GetEnrollmentsResponse
    \/ FetchUuidDetail
    \/ DetailResponse
    \/ DetailError
    \/ RedirectToUuid
    \/ LegacyFetch
    \/ FilterEffect
    \/ TypeEffect
    \/ \E eid \in {E1, E2} : handleToggle(eid)
    \/ selectAll
    \/ deselectToLatestYear

SpecFilter == InitFilter /\ [][NextFilter]_vars

\* the page opened on a student of two years, beside a second student
InitDetail ==
    /\ student_enrollments = {}
    /\ assessments = {}
    /\ benchmark_thresholds = {}
    /\ interventions = {}
    /\ today = 0
    /\ migration = "done"
    /\ tier_history = {}
    /\ NoRead
    /\ overview = NoOverview
    /\ page = Mounted(StudentPath(<<"m", "a", "t", "h">>, U1),
                      <<ApiEnrollment(E1, U1, 2024), ApiEnrollment(E2, U1, 2025),
                        ApiEnrollment(E3, U2, 2025)>>, "chart")

NextDetail ==
    \/ NextFilter
    \/ \E eid \in {E3} : handleToggle(eid)
    \/ \E type \in {"Benchmark", "Easy CBM"} : SelectType(type)
    \/ \E uuid \in {U1, U2} : SelectStudent(uuid)

SpecDetail == InitDetail /\ [][NextDetail]_vars

-----------------------------------------------------------------------------
(* The Overview dashboard of the web client (web/src/pages/OverviewDashboard.tsx). *)
(* overview is the state of the mounted component: the useState values, the   *)
(* requests in flight and the dependencies the metrics effect last ran with.  *)
(* The grade and class filters behave as the teacher filter does and are left *)
(* out. The four metric requests of one Promise.all settle as one response.   *)

\* the metrics of the response to the request numbered seq, and the null metrics
Metric(seq) == [null |-> FALSE, seq |-> seq]
NoMetric == [null |-> TRUE, seq |-> 0]

\* the dashboard filters as loaded, and the null filters
Filters(school_years) == [null |-> FALSE, school_years |-> school_years]
NoFilters == [null |-> TRUE, school_years |-> <<>>]

\* a filter value that is 'All' or missing selects nothing
Selected(value) == IF value = "All" \/ value = NULL THEN NULL ELSE value

\* filters?.school_years?.[0]
FirstSchoolYear(ov) ==
    IF ov.filters.null \/ ov.filters.school_years = <<>> THEN NULL
    ELSE ov.filters.school_years[1]

metricsParams(ov) ==
    LET schoolYear == Selected(ov.filter.school_year)
    IN  [teacher_name |-> Selected(ov.filter.teacher_name),
         school_year |-> IF schoolYear # NULL THEN schoolYear ELSE FirstSchoolYear(ov),
         subject |-> ov.subjectParam,
         current_period |-> "Fall",
         current_school_year |->
             IF schoolYear # NULL THEN schoolYear
             ELSE IF FirstSchoolYear(ov) # NULL THEN FirstSchoolYear(ov)
             ELSE "2024-25"]

\* a request in flight of the dashboard
MetricsRequest(seq, params) == [api |-> "metrics", seq |-> seq, params |-> params]
FiltersRequest == [api |-> "getDashboardFilters", seq |-> 0, params |-> NULL]

\* the effect that loads the dashboard filters, once
LoadFilters ==
    /\ overview.mounted
    /\ ~overview.filtersRan
    /\ overview' = [overview EXCEPT
           !.filtersRan = TRUE,
           !.requests = @ \cup {FiltersRequest}]
    /\ UNCHANGED <<tables, queried, views, page>>

\* the school years the backend can list
SchoolYearLists == {<<"Y2", "Y1">>, <<>>}

\* api.getDashboardFilters().then(setFilters).catch(() => setFilters(null))
FiltersSettled ==
    /\ overview # NoOverview
    /\ FiltersRequest \in overview.requests
    /\ \E loaded \in {NoFilters} \cup {Filters(years) : years \in SchoolYearLists} :
           overview' = [overview EXCEPT
               !.requests = @ \ {FiltersRequest},
               !.filters = IF overview.mounted THEN loaded ELSE @]
    /\ UNCHANGED <<tables, queried, views, page>>

\* the metrics effect: mark loading, clear the error and request the four
\* metrics with the current parameters
LoadMetrics ==
    /\ overview.mounted
    /\ overview.metricsDeps # <<metricsParams(overview)>>
    /\ overview' = [overview EXCEPT
           !.metricsDeps = <<metricsParams(overview)>>,
           !.loading = TRUE,
           !.error = NULL,
           !.issued = @ + 1,
           !.requests = @ \cup {MetricsRequest(overview.issued + 1, metricsParams(overview))}]
    /\ UNCHANGED <<tables, queried, views, page>>

\* the then and the finally of the Promise.all of a metrics request: each of
\* the four requests has succeeded or has failed into null
MetricsSettled ==
    /\ overview # NoOverview
    /\ \E r \in overview.requests :
        /\ r.api = "metrics"
        /\ IF overview.mounted
           THEN \E k, p, g, d \in BOOLEAN :
                    overview' = [overview EXCEPT
                        !.requests = @ \ {r},
                        !.kpis = IF k THEN Metric(r.seq) ELSE NoMetric,
                        !.priority = IF p THEN Metric(r.seq) ELSE NoMetric,
                        !.growth = IF g THEN Metric(r.seq) ELSE NoMetric,
                        !.distribution = IF d THEN Metric(r.seq) ELSE NoMetric,
                        !.error = IF ~k /\ ~p THEN "Metrics unavailable" ELSE @,
                        !.loading = FALSE]
           ELSE overview' = [overview EXCEPT !.requests = @ \ {r}]
    /\ UNCHANGED <<tables, queried, views, page>>

\* the number of filter changes of the user
MaxChanges == 1

\* onChange of the teacher and the school year selects
SetFilter ==
    /\ overview.mounted
    /\ overview.changes < MaxChanges
    /\ \E field \in {"teacher_name", "school_year"} :
           overview' = [overview EXCEPT
               !.changes = @ + 1,
               !.filter = IF field = "teacher_name"
                          THEN [@ EXCEPT !.teacher_name = IF @ = "T1" THEN "All" ELSE "T1"]
                          ELSE [@ EXCEPT !.school_year = IF @ = "Y1" THEN "All" ELSE "Y1"]]
    /\ UNCHANGED <<tables, queried, views, page>>

\* resetFilters
ResetFilters ==
    /\ overview.mounted
    /\ overview.changes < MaxChanges
    /\ overview' = [overview EXCEPT
           !.changes = @ + 1,
           !.filter = [teacher_name |-> NULL, school_year |-> NULL]]
    /\ UNCHANGED <<tables, queried, views, page>>

\* the component is unmounted: its state is no longer updated
Unmount ==
    /\ overview.mounted
    /\ overview' = [overview EXCEPT !.mounted = FALSE]
    /\ UNCHANGED <<tables, queried, views, page>>

\* the component as mounted on /app/:subject/overview
MountedOverview(subjectParam) ==
    [mounted |-> TRUE, subjectParam |-> subjectParam,
     filter |-> [teacher_name |-> NULL, school_year |-> NULL], filters |-> NoFilters,
     kpis |-> NoMetric, priority |-> NoMetric, growth |-> NoMetric,
     distribution |-> NoMetric, loading |-> TRUE, error |-> NULL,
     requests |-> {}, issued |-> 0, metricsDeps |-> <<>>, filtersRan |-> FALSE,
     changes |-> 0]

InitOverview ==
    /\ student_enrollments = {}
    /\ assessments = {}
    /\ benchmark_thresholds = {}
    /\ interventions = {}
    /\ today = 0
    /\ migration = "done"
    /\ tier_history = {}
    /\ NoRead
    /\ page = NoPage
    /\ overview = MountedOverview("Math")

NextOverview ==
    \/ LoadFilters
    \/ FiltersSettled
    \/ LoadMetrics
    \/ MetricsSettled
    \/ SetFilter
    \/ ResetFilters
    \/ Unmount

SpecOverview == InitOverview /\ [][NextOverview]_vars

\* the panel a render shows when every panel reads the error alone
PanelOnError(ov) ==
    IF ov.loading /\ ov.kpis.null /\ ov.priority.null THEN "Loading"
    ELSE IF ov.error # NULL THEN "Failed to load dashboard"
    ELSE "Dashboard"

\* the panel a render shows: the loading panel, the failure panel or the dashboard
Panel(ov) ==
    IF ov.loading /\ ov.kpis.null /\ ov.priority.null THEN "Loading"
    ELSE IF ov.error # NULL /\ ov.kpis.null /\ ov.priority.null
    THEN "Failed to load dashboard"
    ELSE "Dashboard"

\* the dashboard with its effects and responses scheduled fairly: an effect
\* runs after the render that changed its dependencies, and a request settles
SpecOverviewFair ==
    /\ SpecOverview
    /\ WF_vars(LoadFilters)
    /\ WF_vars(FiltersSettled)
    /\ WF_vars(LoadMetrics)
    /\ WF_vars(MetricsSettled)

-----------------------------------------------------------------------------
(* C19: enrollment route redirect *)

\* nothing is in flight and every effect has run with the current dependencies
Settled(pg) ==
    /\ pg.requests = {}
    /\ pg.loadDeps = LoadDeps(pg)
    /\ pg.detailDeps = DetailDeps(pg)
    /\ pg.redirectDeps = RedirectDeps(pg)
    /\ pg.legacyDeps = LegacyDeps(pg)

\* the page was opened on /app/:subject/enrollment/:enrollmentId and the backend
\* holds that enrollment with a student_uuid
OpenedOnResolvable(pg) ==
    /\ Params(pg.opened).enrollmentId # NULLS
    /\ \E i \in 1..Len(pg.server) :
        /\ pg.server[i].enrollment_id = Params(pg.opened).enrollmentId
        /\ pg.server[i].student_uuid # NULLS

\* the location /app/:subject/student/:student_uuid of the enrollment of the URL
UuidLocation(pg) ==
    LET i == CHOOSE i \in 1..Len(pg.server) :
                 pg.server[i].enrollment_id = Params(pg.opened).enrollmentId
    IN  StudentPath(Params(pg.opened).subject, pg.server[i].student_uuid)

\* C19: a page opened on /app/:subject/enrollment/:enrollmentId whose
\* enrollment exists with a student_uuid navigates to
\* /app/:subject/student/:student_uuid: once its requests and effects have
\* settled, that is its location.
C19_AsClaimed ==
    (page # NoPage /\ OpenedOnResolvable(page) /\ Settled(page))
        => page.pathname = UuidLocation(page)

-----------------------------------------------------------------------------
(* C20: the frontend fallback for Latest Score *)

\* the positions of the rows of a list that have a score_normalized
ScoredRows(rows) == {i \in 1..Len(rows) : rows[i].score_normalized # NULLN}

\* the effective_date of a row or, without one, its assessment_date
RowDate(a) == IF a.effective_date # NULLN THEN a.effective_date ELSE a.assessment_date

\* two or more scored rows, each dated, no two on the same date
DistinctlyDated(rows) ==
    /\ Cardinality(ScoredRows(rows)) >= 2
    /\ \A i \in ScoredRows(rows) : RowDate(rows[i]) # NULLN
    /\ \A i, j \in ScoredRows(rows) : i # j => RowDate(rows[i]) # RowDate(rows[j])

\* the scored row with the latest date
NewestScored(rows) ==
    rows[CHOOSE i \in ScoredRows(rows) :
             \A j \in ScoredRows(rows) : RowDate(rows[j]) <= RowDate(rows[i])]

\* the displayed header falls back on the derived values: the page is in UUID
\* mode and the API header is missing or carries no score and no date
FallsBack(pg) ==
    /\ isUuidMode(pg)
    /\ pg.header.latest_score = NULLN
    /\ pg.header.last_assessed_date = NULLN

\* C20: when the latest score and the last assessed date are derived from a
\* list of two or more scored assessments with distinct dates, they are the
\* score and the date of the newest scored row.
C20_AsClaimed ==
    (page # NoPage /\ FallsBack(page) /\ DistinctlyDated(page.assessments))
        => /\ page.displayed.latest_score = NewestScored(page.assessments).score_normalized
           /\ page.displayed.last_assessed_date = RowDate(NewestScored(page.assessments))

-----------------------------------------------------------------------------
(* C21: the KPI strip is never blank when data exists *)

\* the page is in UUID mode and holds a loaded response
LoadedUuid(pg) == pg # NoPage /\ isUuidMode(pg) /\ ~pg.uuidDetail.null

\* every non-null value of the API header is the displayed value
HeaderKept(h, shown) ==
    /\ h.latest_score # NULLN => shown.latest_score = h.latest_score
    /\ h.tier # NULL => shown.tier = h.tier
    /\ h.last_assessed_date # NULLN => shown.last_assessed_date = h.last_assessed_date
    /\ h.has_active_intervention # NULL
           => shown.has_active_intervention = h.has_active_intervention
    /\ h.goal_status # NULL => shown.goal_status = h.goal_status

\* the API header is missing or lacks the latest score or the last assessed date
LacksScoreOrDate(h) == h.null \/ h.latest_score = NULLN \/ h.last_assessed_date = NULLN

\* C21: in UUID mode with a loaded response, every non-null value of the API
\* header is displayed unchanged, and when the header is missing or lacks the
\* latest score or the last assessed date while some returned assessment has a
\* score, the displayed latest score and last assessed date are both non-null.
C21_AsClaimed ==
    LoadedUuid(page) =>
        /\ ~page.header.null => HeaderKept(page.header, page.displayed)
        /\ (LacksScoreOrDate(page.header) /\ ScoredRows(page.assessments) # {})
               => /\ page.displayed.latest_score # NULLN
                  /\ page.displayed.last_assessed_date # NULLN

-----------------------------------------------------------------------------
(* C22: the frontend fallback for Intervention *)

\* the status contains 'active', 'progress' or 'ongoing', in any letter case
NamesActive(status) ==
    /\ status # NULLS
    /\ \E word \in {<<"a", "c", "t", "i", "v", "e">>,
                    <<"p", "r", "o", "g", "r", "e", "s", "s">>,
                    <<"o", "n", "g", "o", "i", "n", "g">>} :
           Contains(Lower(status), word)

\* the displayed intervention flag is the derived one: a header is displayed
\* and the API header carries no flag
FlagDerived(pg) ==
    /\ ~pg.displayed.null
    /\ pg.header.has_active_intervention = NULL

\* C22: the derived has_active_intervention is true exactly when some
\* intervention of the current list has a status containing 'active',
\* 'progress' or 'ongoing' in any letter case.
C22_AsClaimed ==
    (LoadedUuid(page) /\ FlagDerived(page))
        => (page.displayed.has_active_intervention = "true"
            <=> \E i \in 1..Len(page.interventions) :
                    NamesActive(page.interventions[i].status))

-----------------------------------------------------------------------------
(* C23: no stale-response updates on the Overview dashboard *)

\* the four displayed metrics
Metrics(ov) == <<ov.kpis, ov.priority, ov.growth, ov.distribution>>

\* no request is in flight and the effects have run with the current parameters
OverviewSettled(ov) ==
    /\ ov.mounted
    /\ ov.requests = {}
    /\ ov.filtersRan
    /\ ov.metricsDeps = <<metricsParams(ov)>>

\* C23: a response to a request that is not the most recently issued one never
\* updates kpis, priority, growth or distribution, and once every request has
\* settled each displayed metric is that of the most recently issued request.
C23_AsClaimed ==
    /\ [][(overview # NoOverview /\ Metrics(overview') # Metrics(overview))
              => \E r \in overview.requests \ overview'.requests :
                     r.api = "metrics" /\ r.seq = overview.issued]_vars
    /\ [](overview # NoOverview /\ OverviewSettled(overview)
              => \A i \in 1..4 :
                     ~Metrics(overview)[i].null => Metrics(overview)[i].seq = overview.issued)

-----------------------------------------------------------------------------
(* C26: partial failure of the Overview metrics *)

\* a response to a metrics request has just been applied
Applied(ov, ov2) ==
    ov # NoOverview /\ ov.mounted
    /\ \E r \in ov.requests \ ov2.requests : r.api = "metrics"

\* the request whose response has just been applied
AppliedSeq(ov, ov2) == (CHOOSE r \in ov.requests \ ov2.requests : TRUE).seq

\* C26: each of the four metrics of a response is its data or, on failure, null,
\* whatever the other three are. The failure panel is shown exactly when the
\* page is not loading and neither kpis nor priority is available; with either
\* of them the dashboard is shown. Loading always returns to false.
C26_PartialFailure ==
    /\ [][Applied(overview, overview')
              => /\ \A i \in 1..4 :
                        Metrics(overview')[i]
                            \in {Metric(AppliedSeq(overview, overview')), NoMetric}
                 /\ ~overview'.loading]_vars
    /\ [](overview # NoOverview =>
              /\ (Panel(overview) = "Failed to load dashboard"
                      <=> (~overview.loading /\ overview.kpis.null
                           /\ overview.priority.null))
              /\ (~overview.kpis.null \/ ~overview.priority.null)
                      => Panel(overview) = "Dashboard")
    /\ ((overview # NoOverview /\ overview.mounted /\ overview.loading)
            ~> (~overview.mounted \/ ~overview.loading))

\* a response in which kpis failed and priority arrived is on display
C26_Witness ==
    /\ overview # NoOverview
    /\ overview.mounted
    /\ ~overview.loading
    /\ overview.kpis.null
    /\ ~overview.priority.null
    /\ overview.growth.null
    /\ ~overview.distribution.null
    /\ Panel(overview) = "Dashboard"

-----------------------------------------------------------------------------
(* C24, C25: the enrollment filter of the Student Detail page, for a student  *)
(* with at least one enrollment and under handleToggle, selectAll and         *)
(* deselectToLatestYear.                                                      *)

\* the enrollment ids of the student in the URL
StudentIds(pg) == Ids(EnrollmentsOf(pg.server, Params(pg.pathname).studentUuid))

\* the selection, with the empty list read as all
EffectiveSelection(pg) ==
    IF Len(pg.selectedEnrollmentIds) = 0 THEN StudentIds(pg) ELSE pg.selectedEnrollmentIds

\* C24: after every step the effective selection (selectedEnrollmentIds, the
\* empty list read as all) is a non-empty list of enrollment ids of the
\* student, and a toggle of the only selected enrollment leaves
\* selectedEnrollmentIds as it was.
C24_NeverEmpty ==
    [][/\ Len(EffectiveSelection(page')) > 0
       /\ \A i \in 1..Len(EffectiveSelection(page')) :
              ArrayIncludes(StudentIds(page'), EffectiveSelection(page')[i])
       /\ \A eid \in {E1, E2} :
              (handleToggle(eid) /\ EffectiveSelection(page) = <<eid>>)
                  => page'.selectedEnrollmentIds = page.selectedEnrollmentIds]_vars

\* the chip of the only enrollment of a student has been toggled: the handler
\* has run and the selection is the one the page started with
C24_Witness ==
    /\ page # NoPage
    /\ StudentIds(page) = <<E1>>
    /\ page.acts = 1
    /\ page.filterApplied
    /\ page.selectedEnrollmentIds = <<>>
    /\ page.filterDeps = <<<<>>, FALSE>>

\* C25: selectedEnrollmentIds is empty or lacks an enrollment of the student,
\* and no detail request carries every enrollment id of the student.
C25_AsClaimed ==
    page # NoPage =>
        /\ (page.selectedEnrollmentIds = <<>>
            \/ \E i \in 1..Len(StudentIds(page)) :
                   ~ArrayIncludes(page.selectedEnrollmentIds, StudentIds(page)[i]))
        /\ \A r \in page.requests :
               r.api = "getStudentDetailByUuid" =>
                   (r.eids = <<>>
                    \/ \E i \in 1..Len(StudentIds(page)) :
                           ~ArrayIncludes(r.eids, StudentIds(page)[i]))

-----------------------------------------------------------------------------
(* C27: the detail requests of the Student Detail page under student changes, *)
(* filter changes and response arrivals.                                      *)

\* the getStudentDetailByUuid requests in flight
Outstanding(pg) == {r \in pg.requests : r.api = "getStudentDetailByUuid"}

\* every detail request has settled and every effect has run
AllSettled(pg) == Outstanding(pg) = {} /\ EffectsFlushed(pg)

\* C27: once every detail request has settled, the detail on display is of
\* the student in the URL and of the current selectedEnrollmentIds; and
\* loading is false only when no detail request is outstanding.
C27_AsClaimed ==
    page # NoPage =>
        /\ (AllSettled(page) /\ ~page.uuidDetail.null)
               => /\ page.uuidDetail.student_uuid = Params(page.pathname).studentUuid
                  /\ page.uuidDetail.selected_enrollment_ids = page.selectedEnrollmentIds
        /\ ~page.loading => Outstanding(page) = {}

-----------------------------------------------------------------------------
(* C28: the assessment-type filter of the chart Score Over Time.              *)

\* the entries of the score history of the given assessment type
EntriesOfType(pg, type) ==
    SelectSeq(pg.scoresHistory, LAMBDA item : item.assessment_type = type)

\* C28: whenever the chart is on display, every effect has run and the score
\* history has an entry with an assessment type, the type of the select is
\* one of the types of the history and the plotted series is exactly the
\* entries of that type.
C28_AsClaimed ==
    (/\ page # NoPage
     /\ ChartShown(page)
     /\ EffectsFlushed(page)
     /\ Len(availableAssessmentTypes(page)) > 0)
        => /\ ArrayIncludes(availableAssessmentTypes(page), SelectValue(page))
           /\ filteredScoresHistory(page) = EntriesOfType(page, SelectValue(page))

-----------------------------------------------------------------------------
(* C29: the rows of v_support_status and v_priority_students per enrollment   *)
(* and subject.                                                               *)

\* the rows of the view V for one (enrollment_id, subject_area)
RowsFor(V, enrollment_id, subject_area) ==
    {r \in V : r.enrollment_id = enrollment_id /\ r.subject_area = subject_area}

\* C29: v_support_status and v_priority_students hold at most one row per
\* (enrollment_id, subject_area).
C29_AsClaimed ==
    queried =>
        /\ \A r \in v_support_status :
               Cardinality(RowsFor(v_support_status, r.enrollment_id, r.subject_area)) <= 1
        /\ \A r \in v_priority_students :
               Cardinality(RowsFor(v_priority_students, r.enrollment_id, r.subject_area)) <= 1

-----------------------------------------------------------------------------
(* C30: the latest score under the tier and the latest score under the trend. *)

\* C30: a v_priority_students row with a trend has a latest_score, a tier
\* other than Unknown, and the latest_score of the v_growth_last_two row it
\* is joined with.
C30_AsClaimed ==
    queried =>
        \A p \in v_priority_students :
            p.trend # NULL =>
                /\ p.latest_score # NULLN
                /\ p.tier # "Unknown"
                /\ \A g \in v_growth_last_two :
                       GrowthJoins(g, p) => g.latest_score = p.latest_score

====
